---- MODULE Spec2Model ----
(***************************************************************************)
(* git-remote-s3: the remote helper's ref engine (S3Remote.cmd_push,       *)
(* remove_remote_ref, init_remote_head, get_bundles_for_ref, is_protected) *)
(* run by helper processes against one shared bucket, and the per-ref lock *)
(* manager of the specification (section 4.4), whose code is not part of   *)
(* src/git_remote_s3/remote.py.                                            *)
(*                                                                         *)
(* Every object-store call is one step, so that the calls of different     *)
(* helper processes interleave; git invocations touch only the local       *)
(* repository and are folded into the step they belong to.                 *)
(***************************************************************************)
EXTENDS Integers, Sequences, FiniteSets, TLC

\* ---------------------------------------------------------------- bounds
NProcs == 2
MaxCmds == 1
MaxAttempts == 2
MaxQueue == 2
MaxLines == 4
MaxExtraParts == 1
MaxObjs == 3
MaxEvents == 4

Procs == 1..NProcs

\* ------------------------------------------------------------ data model
\* Ref names are strings; a string is a sequence of characters, so that the
\* object store's Prefix= matching is computed, not assumed.
RefMain == <<"m">>
RefMain2 == <<"m", "2">>
Refs == {RefMain, RefMain2}
NoRef == <<>>

\* Commits of the local repository: s1 is the parent of s2 and of s3.
Shas == {"s1", "s2", "s3"}
Unbound == "unbound"
NoSha == "-"

UriSchemes == {"S3", "S3_ZIP"}

\* An object key <prefix>/<ref>/<name>: name is <sha>.bundle, repo.zip,
\* PROTECTED# or LOCK#.lock.
Key(r, kind, s) == [ref |-> r, kind |-> kind, sha |-> s]
BundleKey(r, s) == Key(r, "bundle", s)
ZipKey(r) == Key(r, "zip", NoSha)
ProtectedKey(r) == Key(r, "protected", NoSha)
LockKey(r) == Key(r, "lock", NoSha)
HeadKey == Key(NoRef, "HEAD", NoSha)

IsStrPrefix(a, b) == Len(a) <= Len(b) /\ SubSeq(b, 1, Len(a)) = a

\* list_objects_v2(Prefix="<prefix>/<ref>/"): the keys of that ref directory.
ListDir(b, r) == {k \in b : k.ref = r}

\* list_objects_v2(Prefix="<prefix>/<ref>"), no trailing slash: every key whose
\* string starts with it, the keys of refs that extend the name included.
ListPrefix(b, r) == {k \in b : IsStrPrefix(r, k.ref)}

Bundles(b, r) == {k \in b : k.ref = r /\ k.kind = "bundle"}

get_bundles_for_ref(b, r) == {k \in ListDir(b, r) : k.kind \notin {"protected", "zip"}}

\* list_objects_v2(Prefix="<prefix>/<ref>/PROTECTED#")
is_protected(b, r) == {k \in ListDir(b, r) : k.kind = "protected"}

\* Faulty variant of force_granted: the force flag granted on protected refs
\* only.
ForceGrantedInverted(b, r) == is_protected(b, r) # {}

\* force_push = not self.is_protected(remote_ref)
force_granted(b, r) == is_protected(b, r) = {}

\* Faulty variant of multiple_bundles: the test off by one.
MultipleBundlesOffByOne(c) == Cardinality(c) > 2

\* len(contents) > 1
multiple_bundles(c) == Cardinality(c) > 1

\* remote_to_remove.split("/")[-1].split(".")[0]
remote_sha(k) == IF k.kind = "bundle" THEN k.sha ELSE "LOCK#"

\* git rev-parse <local>: a local ref is named by the commit it points to;
\* "nosuch" is a ref the local repository does not have (GitError).
LocalRefs == Shas \cup {"nosuch"}
rev_parse_ok(l) == l \in Shas
rev_parse(l) == l

\* git merge-base --is-ancestor a b
is_ancestor(a, b) == a \in Shas /\ b \in Shas /\ (a = b \/ a = "s1")

\* Faulty variant of not_fast_forward: the arguments of is_ancestor exchanged.
NotFastForwardSwapped(rtr, force, l) ==
  \E k \in rtr : ~force /\ ~is_ancestor(l, remote_sha(k))

\* if remote_to_remove: ... if not force_push and not git.is_ancestor(remote_sha, sha)
not_fast_forward(rtr, force, l) ==
  \E k \in rtr : ~force /\ ~is_ancestor(remote_sha(k), l)

\* remove_remote_ref's test on the listing: one object under S3, two under S3+ZIP
remove_count_ok(sch, objs) ==
  \/ sch = "S3" /\ Cardinality(objs) = 1
  \/ sch = "S3_ZIP" /\ Cardinality(objs) = 2

\* The push commands: "push <local>:<remote>", "push +<local>:<remote>" and
\* "push :<remote>" (local empty).
PushCmd(l, f, r) == [local |-> l, force |-> f, remote |-> r]
PushRefs == {RefMain}
Cmds == {PushCmd(l, f, r) : l \in LocalRefs, f \in BOOLEAN, r \in PushRefs}
          \cup {PushCmd("", FALSE, r) : r \in PushRefs}
NoCmd == PushCmd("", FALSE, NoRef)

\* The fetch commands: "fetch <sha> <ref>".
FetchCmd(s, r) == [sha |-> s, ref |-> r]
FetchCmds == {FetchCmd(s, r) : s \in {"s1", "s2"}, r \in PushRefs}

\* The workers of the fetch batch's thread pool, one per queued command.
Workers == 1..MaxQueue

\* A line written to stdout: the reply for a ref, or the empty line that ends
\* a batch.
Line(r, t) == [ref |-> r, text |-> t]
Terminator == Line(NoRef, "")

\* File sizes in bytes, as mib * 2^20 + rem with rem < 2^20: the threshold of
\* 2 GiB is 2^31 bytes.
MiB == 1024 * 1024
Bytes(m, r) == [mib |-> m, rem |-> r]
size_gt(a, b) == a.mib > b.mib \/ (a.mib = b.mib /\ a.rem > b.rem)

\* DEFAULT_PART_SIZE = 100 * 1024 * 1024; MULTIPART_UPLOAD_THRESHOLD = 2 * 1024 * 1024 * 1024
DEFAULT_PART_SIZE == Bytes(100, 0)
MULTIPART_UPLOAD_THRESHOLD == Bytes(2 * 1024, 0)

\* The files uploaded in these runs: empty, one byte, around the threshold, and
\* a whole number of parts above it, with and without one more byte.
USizes ==
  {Bytes(0, 0), Bytes(0, 1), Bytes(DEFAULT_PART_SIZE.mib, 0),
   Bytes(MULTIPART_UPLOAD_THRESHOLD.mib - 1, MiB - 1),
   MULTIPART_UPLOAD_THRESHOLD,
   Bytes(MULTIPART_UPLOAD_THRESHOLD.mib, 1)}
  \cup {Bytes(DEFAULT_PART_SIZE.mib * k, r) : k \in 21..(20 + MaxExtraParts), r \in {0, 1}}

\* The call sites of the upload: the bundle and the archive of cmd_push, the
\* object of LFSProcess.upload.
USites == {"bundle", "archive", "lfs"}

\* get_file_size: os.path.getsize, 0 on OSError
get_file_size(sz, readable) == IF readable THEN sz ELSE Bytes(0, 0)

\* Faulty variant of should_use_multipart_upload: the threshold itself goes to
\* the multipart upload.
ShouldUseMultipartAtThreshold(sz, readable) ==
  ~size_gt(MULTIPART_UPLOAD_THRESHOLD, get_file_size(sz, readable))

\* remote.py: return file_size > MULTIPART_UPLOAD_THRESHOLD
should_use_multipart_upload(sz, readable) ==
  size_gt(get_file_size(sz, readable), MULTIPART_UPLOAD_THRESHOLD)

\* lfs.py: return file_size > MULTIPART_UPLOAD_THRESHOLD
lfs_should_use_multipart_upload(sz, readable) ==
  size_gt(get_file_size(sz, readable), MULTIPART_UPLOAD_THRESHOLD)

\* Sums and differences of sizes (b at most a).
bytes_add(a, b) == Bytes(a.mib + b.mib + ((a.rem + b.rem) \div MiB), (a.rem + b.rem) % MiB)
bytes_sub(a, b) ==
  IF a.rem >= b.rem THEN Bytes(a.mib - b.mib, a.rem - b.rem)
  ELSE Bytes(a.mib - b.mib - 1, a.rem + MiB - b.rem)

\* file_data.read(part_size) with off bytes of the file read: part_size bytes,
\* or what is left of the file, nothing at its end.
read(sz, off) ==
  LET left == bytes_sub(sz, off)
  IN IF size_gt(left, DEFAULT_PART_SIZE) THEN DEFAULT_PART_SIZE ELSE left

\* part['ETag'] of the response to upload_part(PartNumber=n)
ETag(n) == [etag |-> n]

\* Faulty variant of next_part_number: a number is left out.
NextPartNumberSkips(n) == n + 2

\* part_number += 1
next_part_number(n) == n + 1

\* total_parts = math.ceil(file_size / part_size)
total_parts(sz) ==
  (sz.mib \div DEFAULT_PART_SIZE.mib)
    + (IF sz.mib % DEFAULT_PART_SIZE.mib # 0 \/ sz.rem # 0 THEN 1 ELSE 0)

VARIABLES
  bucket,            \* the keys of the bucket under <prefix> (HEAD apart)
  head,              \* the body of <prefix>/HEAD, NoRef when there is none
  scheme,            \* uri_scheme of the helper process running the command
  pc,                \* where each helper process is in its command
  cmd,               \* the push command it runs
  force_push,        \* cmd_push's locals
  contents,
  remote_to_remove,
  sha,
  todel,             \* remove_remote_ref: objects_to_delete not yet deleted
  reply,             \* the reply returned (pending, inside the try block), or
                     \* the exception raised
  tmp,               \* the temporary files the process has on disk
  pre,               \* the bucket as the command found it
  puts,              \* keys the command has put
  dels,              \* keys the command has deleted
  ncmd,              \* commands the client has started (concurrent runs)
  lockStale,         \* lock manager: refs whose lock is older than the TTL
  lpc,               \* lock manager: where each process is in acquire/release
  lref,              \* the ref it locks
  attempts,          \* conditional puts it has tried
  ldels,             \* stale locks it has deleted, in this call of acquire
  alone,             \* no other process has changed the lock since it called acquire
  mode,              \* command loop: self.mode
  push_cmds,         \* self.push_cmds
  fetch_cmds,        \* self.fetch_cmds
  push_res,          \* replies of the pushes of the flush under way
  out,               \* the lines written to stdout
  lpos,              \* where the command loop is
  last,              \* kind of the last line read from stdin
  nrecv,             \* lines read from stdin
  fpc,               \* fetch batch: where each worker is in cmd_fetch
  fetched_refs,      \* self.fetched_refs
  gets,              \* get_object calls made, per sha
  unbundles,         \* git unbundle runs, per sha
  ftmp,              \* workers whose downloaded bundle file is on disk
  aux                \* the part run on its own (an upload, a list, the raw
                     \* lines, the LFS agent): a record of its state, else Idle

pushVars == <<bucket, head, scheme, pc, cmd, force_push, contents, remote_to_remove,
              sha, todel, reply, tmp, pre, puts, dels, ncmd>>
lockVars == <<lockStale, lpc, lref, attempts, ldels, alone>>
loopVars == <<mode, push_cmds, fetch_cmds, push_res, out, lpos, last, nrecv>>
fetchVars == <<fpc, fetched_refs, gets, unbundles, ftmp>>
coreVars == <<pushVars, lockVars, loopVars, fetchVars>>
auxVars == <<aux>>
vars == <<coreVars, auxVars>>

\* The fields of aux.
usite == aux.usite
usize == aux.usize
ureadable == aux.ureadable
upc == aux.upc
ustrategy == aux.ustrategy
upart == aux.upart
uread == aux.uread
uparts == aux.uparts
urecv == aux.urecv
ucompleted == aux.ucompleted
ustate == aux.ustate
uaborts == aux.uaborts
uobj == aux.uobj
uret == aux.uret
ls_contents == aux.ls_contents
ls_body == aux.ls_body
ls_pc == aux.ls_pc
ls_for_push == aux.ls_for_push
ls_code == aux.ls_code
ls_out == aux.ls_out
ln_line == aux.ln_line
ln_nread == aux.ln_nread
ln_mode == aux.ln_mode
ln_push_cmds == aux.ln_push_cmds
ln_fetch_cmds == aux.ln_fetch_cmds
ln_ran == aux.ln_ran
ln_entered == aux.ln_entered
ln_exec == aux.ln_exec
ln_stdout == aux.ln_stdout
ln_stderr == aux.ln_stderr
ln_exit == aux.ln_exit
lfs_state == aux.lfs_state
lfs_n == aux.lfs_n
lfs_event == aux.lfs_event
lfs_oid == aux.lfs_oid
lfs_fail == aux.lfs_fail
lfs_out == aux.lfs_out
lfs_store == aux.lfs_store
lfs_local == aux.lfs_local
lfs_stored == aux.lfs_stored
lfs_calls == aux.lfs_calls

\* The replies: "ok" is "ok <remote>"; "multiple_bundles", "not_found",
\* "not_ancestor" and "client_error" are cmd_push's error lines; "rm_not_found"
\* and "rm_not_found_404" are both the line "error <remote> not found", returned by
\* remove_remote_ref on its test of the listing and on a ClientError 404.
NoReply == "none"
ErrorReplies == {"multiple_bundles", "not_found", "not_ancestor", "client_error",
                 "rm_not_found", "rm_not_found_404"}

\* ------------------------------------------------------------------ Init
\* A bucket at rest as pushes leave it: at most one bundle per ref; the
\* PROTECTED# markers are put by the management tool, not by the helper.
InitBuckets ==
  {bs \cup ps \cup os :
     bs \in {{}} \cup {{BundleKey(RefMain, s)} : s \in Shas},
     ps \in SUBSET {ProtectedKey(RefMain)},
     os \in SUBSET {BundleKey(RefMain2, "s1")}}

InitLocals ==
  /\ pc = [p \in Procs |-> "idle"]
  /\ scheme = [p \in Procs |-> "S3"]
  /\ cmd = [p \in Procs |-> NoCmd]
  /\ force_push = [p \in Procs |-> FALSE]
  /\ contents = [p \in Procs |-> {}]
  /\ remote_to_remove = [p \in Procs |-> {}]
  /\ sha = [p \in Procs |-> Unbound]
  /\ todel = [p \in Procs |-> {}]
  /\ reply = [p \in Procs |-> NoReply]
  /\ tmp = [p \in Procs |-> {}]
  /\ pre = [p \in Procs |-> {}]
  /\ puts = [p \in Procs |-> {}]
  /\ dels = [p \in Procs |-> {}]
  /\ ncmd = [p \in Procs |-> 0]

InitLock ==
  /\ lockStale = {}
  /\ lpc = [p \in Procs |-> "idle"]
  /\ lref = [p \in Procs |-> NoRef]
  /\ attempts = [p \in Procs |-> 0]
  /\ ldels = [p \in Procs |-> 0]
  /\ alone = [p \in Procs |-> TRUE]

\* S3Remote.__init__: mode None, both buffers and fetched_refs empty.
InitLoop ==
  /\ mode = "none"
  /\ push_cmds = <<>>
  /\ fetch_cmds = <<>>
  /\ push_res = <<>>
  /\ out = <<>>
  /\ lpos = "start"
  /\ last = "none"
  /\ nrecv = 0

InitFetch ==
  /\ fpc = [w \in Workers |-> "idle"]
  /\ fetched_refs = {}
  /\ gets = [s \in Shas |-> 0]
  /\ unbundles = [s \in Shas |-> 0]
  /\ ftmp = {}

InitCore ==
  /\ bucket \in InitBuckets
  /\ head = (IF Bundles(bucket, RefMain) = {} THEN NoRef ELSE RefMain)
  /\ InitLocals
  /\ InitLock
  /\ InitLoop
  /\ InitFetch

\* No part is run on its own.
Idle == [idle |-> TRUE]

InitAux == aux = Idle

Init == InitCore /\ InitAux

\* ------------------------------------------------- the command loop's push
\* A helper process (uri_scheme sch) is handed the queued line c: process_cmd
\* calls cmd_push, which splits it and takes the delete path, the force path or
\* the plain path.
Begin(p, c, sch) ==
  /\ UNCHANGED auxVars
  /\ pc[p] = "idle"
  /\ cmd' = [cmd EXCEPT ![p] = c]
  /\ scheme' = [scheme EXCEPT ![p] = sch]
  /\ pc' = [pc EXCEPT ![p] = IF c.local = "" THEN "rm_list"
                              ELSE IF c.force THEN "is_protected"
                              ELSE "get_bundles"]
  /\ pre' = [pre EXCEPT ![p] = bucket]
  /\ UNCHANGED <<bucket, head, force_push, contents, remote_to_remove, sha,
                 todel, reply, tmp, puts, dels, lockVars, loopVars, fetchVars>>

Start(p) ==
  /\ ncmd[p] < MaxCmds
  /\ ncmd' = [ncmd EXCEPT ![p] = @ + 1]
  /\ \E c \in Cmds, sch \in UriSchemes : Begin(p, c, sch)

\* An exception e that leaves cmd_push: no reply is returned, main reports a
\* fatal error and exits. reply records which exception it was.
Raise(p, e) ==
  /\ pc' = [pc EXCEPT ![p] = "raised"]
  /\ reply' = [reply EXCEPT ![p] = e]

\* A return inside cmd_push's try block: the reply is pending until the finally
\* block has run.
ReturnInTry(p, r) ==
  /\ pc' = [pc EXCEPT ![p] = "finally"]
  /\ reply' = [reply EXCEPT ![p] = r]

\* local_ref.startswith("+"): force_push = not self.is_protected(remote_ref)
CmdPushIsProtected(p) ==
  /\ UNCHANGED auxVars
  /\ pc[p] = "is_protected"
  /\ \/ /\ force_push' = [force_push EXCEPT ![p] = force_granted(bucket, cmd[p].remote)]
        /\ pc' = [pc EXCEPT ![p] = "get_bundles"]
        /\ UNCHANGED reply
     \/ /\ Raise(p, "ClientError")
        /\ UNCHANGED force_push
  /\ UNCHANGED <<bucket, head, scheme, cmd, contents, remote_to_remove, sha, todel,
                 tmp, pre, puts, dels, ncmd, lockVars, loopVars, fetchVars>>

\* contents = self.get_bundles_for_ref(remote_ref); more than one bundle refuses
\* the push before the try block.
CmdPushGetBundles(p) ==
  /\ UNCHANGED auxVars
  /\ pc[p] = "get_bundles"
  /\ \/ LET c == get_bundles_for_ref(bucket, cmd[p].remote) IN
        /\ contents' = [contents EXCEPT ![p] = c]
        /\ IF multiple_bundles(c)
           THEN /\ pc' = [pc EXCEPT ![p] = "done"]
                /\ reply' = [reply EXCEPT ![p] = "multiple_bundles"]
                /\ UNCHANGED remote_to_remove
           ELSE /\ pc' = [pc EXCEPT ![p] = "git"]
                /\ remote_to_remove' = [remote_to_remove EXCEPT ![p] =
                                           IF Cardinality(c) = 1 THEN c ELSE {}]
                /\ UNCHANGED reply
     \/ /\ Raise(p, "ClientError")
        /\ UNCHANGED <<contents, remote_to_remove>>
  /\ UNCHANGED <<bucket, head, scheme, cmd, force_push, sha, todel, tmp, pre, puts,
                 dels, ncmd, lockVars, loopVars, fetchVars>>

\* Faulty variant of AfterBundle: the old bundle is deleted before the new one
\* is uploaded.
AfterBundleDeletesFirst == "delete_old"

\* After git.bundle the bundle is uploaded; init_remote_head and the delete of
\* the old bundle come after the upload.
AfterBundle == "put_bundle"

\* sha = git.rev_parse(local_ref); the fast-forward gate; git.bundle(...)
CmdPushGit(p) ==
  /\ UNCHANGED auxVars
  /\ pc[p] = "git"
  /\ IF ~rev_parse_ok(cmd[p].local)
     THEN /\ ReturnInTry(p, "not_found")
          /\ UNCHANGED <<sha, tmp>>
     ELSE LET l == rev_parse(cmd[p].local) IN
          /\ sha' = [sha EXCEPT ![p] = l]
          /\ IF not_fast_forward(remote_to_remove[p], force_push[p], l)
             THEN /\ ReturnInTry(p, "not_ancestor")
                  /\ UNCHANGED tmp
             ELSE /\ pc' = [pc EXCEPT ![p] = AfterBundle]
                  /\ tmp' = [tmp EXCEPT ![p] = @ \cup {"bundle"}]
                  /\ UNCHANGED reply
  /\ UNCHANGED <<bucket, head, scheme, cmd, force_push, contents, remote_to_remove,
                 todel, pre, puts, dels, ncmd, lockVars, loopVars, fetchVars>>

\* self.s3.put_object(Key=bundle_key, Body=f)
CmdPushPutBundle(p) ==
  /\ UNCHANGED auxVars
  /\ pc[p] = "put_bundle"
  /\ \/ /\ bucket' = bucket \cup {BundleKey(cmd[p].remote, sha[p])}
        /\ puts' = [puts EXCEPT ![p] = @ \cup {BundleKey(cmd[p].remote, sha[p])}]
        /\ pc' = [pc EXCEPT ![p] = "head_object"]
        /\ UNCHANGED reply
     \/ /\ ReturnInTry(p, "client_error")
        /\ UNCHANGED <<bucket, puts>>
  /\ UNCHANGED <<head, scheme, cmd, force_push, contents, remote_to_remove, sha, todel,
                 tmp, pre, dels, ncmd, lockVars, loopVars, fetchVars>>

\* Where cmd_push goes after init_remote_head, and after the delete of the old
\* bundle.
AfterDelete(p) == IF scheme[p] = "S3_ZIP" THEN "put_archive" ELSE "finally"
AfterHead(p) == IF remote_to_remove[p] # {} THEN "delete_old" ELSE AfterDelete(p)
Goto(p, l) ==
  /\ pc' = [pc EXCEPT ![p] = l]
  /\ reply' = [reply EXCEPT ![p] = IF l = "finally" THEN "ok" ELSE @]

\* init_remote_head: head_object(<prefix>/HEAD); any ClientError leads to the put.
InitRemoteHeadHead(p) ==
  /\ UNCHANGED auxVars
  /\ pc[p] = "head_object"
  /\ \/ /\ head # NoRef
        /\ Goto(p, AfterHead(p))
     \/ /\ pc' = [pc EXCEPT ![p] = "put_head"]
        /\ UNCHANGED reply
  /\ UNCHANGED <<bucket, head, scheme, cmd, force_push, contents, remote_to_remove,
                 sha, todel, tmp, pre, puts, dels, ncmd, lockVars, loopVars, fetchVars>>

\* init_remote_head: put_object(<prefix>/HEAD, Body=ref)
InitRemoteHeadPut(p) ==
  /\ UNCHANGED auxVars
  /\ pc[p] = "put_head"
  /\ \/ /\ head' = cmd[p].remote
        /\ puts' = [puts EXCEPT ![p] = @ \cup {HeadKey}]
        /\ Goto(p, AfterHead(p))
     \/ /\ ReturnInTry(p, "client_error")
        /\ UNCHANGED <<head, puts>>
  /\ UNCHANGED <<bucket, scheme, cmd, force_push, contents, remote_to_remove, sha,
                 todel, tmp, pre, dels, ncmd, lockVars, loopVars, fetchVars>>

\* if remote_to_remove: self.s3.delete_object(Key=remote_to_remove)
CmdPushDeleteOld(p) ==
  /\ UNCHANGED auxVars
  /\ pc[p] = "delete_old"
  /\ \/ /\ bucket' = bucket \ remote_to_remove[p]
        /\ dels' = [dels EXCEPT ![p] = @ \cup remote_to_remove[p]]
        /\ Goto(p, AfterDelete(p))
     \/ /\ ReturnInTry(p, "client_error")
        /\ UNCHANGED <<bucket, dels>>
  /\ UNCHANGED <<head, scheme, cmd, force_push, contents, remote_to_remove, sha, todel,
                 tmp, pre, puts, ncmd, lockVars, loopVars, fetchVars>>

\* Faulty variant of archive_metadata: the summary is left empty.
ArchiveMetadataEmpty(msg) == [summary |-> ""]

\* metadata = {"codepipeline-artifact-revision-summary": commit_msg}
archive_metadata(msg) == [summary |-> msg]

\* The upload of the archive as the store receives it: who made it, the key,
\* the ref that git.archive was given, the metadata (passed to put_object, or
\* to create_multipart_upload by multipart_upload_file) and whether the
\* command had put its bundle before. zmsg is what
\* git.get_last_commit_message() returns, zsize the size of the archive.
ArchiveUpload(p) ==
  [proc |-> p, key |-> ZipKey(cmd[p].remote), ref |-> cmd[p].local,
   metadata |-> archive_metadata(aux.zmsg),
   multipart |-> should_use_multipart_upload(aux.zsize, TRUE),
   after_bundle |-> BundleKey(cmd[p].remote, sha[p]) \in puts[p]]

\* A run that records the archive uploads keeps the last one.
record_archive(a, p) == IF a = Idle THEN a ELSE [a EXCEPT !.zput = ArchiveUpload(p)]

\* S3+ZIP: git.archive(...), put_object(<prefix>/<remote>/repo.zip)
CmdPushPutArchive(p) ==
  /\ pc[p] = "put_archive"
  /\ tmp' = [tmp EXCEPT ![p] = @ \cup {"archive"}]
  /\ \/ /\ bucket' = bucket \cup {ZipKey(cmd[p].remote)}
        /\ puts' = [puts EXCEPT ![p] = @ \cup {ZipKey(cmd[p].remote)}]
        /\ aux' = record_archive(aux, p)
        /\ Goto(p, "finally")
     \/ /\ ReturnInTry(p, "client_error")
        /\ UNCHANGED <<bucket, puts, auxVars>>
  /\ UNCHANGED <<head, scheme, cmd, force_push, contents, remote_to_remove, sha, todel,
                 pre, dels, ncmd, lockVars, loopVars, fetchVars>>

\* finally: if os.path.exists(f"{temp_dir}/{sha}.bundle"): os.remove(...)
\* With sha never assigned (rev_parse raised) the f-string raises
\* UnboundLocalError, which replaces the pending return.
CmdPushFinally(p) ==
  /\ UNCHANGED auxVars
  /\ pc[p] = "finally"
  /\ IF sha[p] = Unbound
     THEN /\ Raise(p, "UnboundLocalError")
          /\ UNCHANGED tmp
     ELSE /\ pc' = [pc EXCEPT ![p] = "done"]
          /\ tmp' = [tmp EXCEPT ![p] = @ \ {"bundle"}]
          /\ UNCHANGED reply
  /\ UNCHANGED <<bucket, head, scheme, cmd, force_push, contents, remote_to_remove,
                 sha, todel, pre, puts, dels, ncmd, lockVars, loopVars, fetchVars>>

\* remove_remote_ref: list_objects_v2(Prefix=f"{prefix}/{remote_ref}") and the test
\* on the number of objects listed. A ClientError with code 404 is answered with
\* the error reply, any other is raised again.
RemoveRemoteRefList(p) ==
  /\ UNCHANGED auxVars
  /\ pc[p] = "rm_list"
  /\ \/ LET objs == ListPrefix(bucket, cmd[p].remote) IN
        IF remove_count_ok(scheme[p], objs)
        THEN /\ todel' = [todel EXCEPT ![p] = objs]
             /\ pc' = [pc EXCEPT ![p] = "rm_delete"]
             /\ UNCHANGED reply
        ELSE /\ pc' = [pc EXCEPT ![p] = "done"]
             /\ reply' = [reply EXCEPT ![p] = "rm_not_found"]
             /\ UNCHANGED todel
     \/ /\ pc' = [pc EXCEPT ![p] = "done"]
        /\ reply' = [reply EXCEPT ![p] = "rm_not_found_404"]
        /\ UNCHANGED todel
     \/ /\ Raise(p, "ClientError")
        /\ UNCHANGED todel
  /\ UNCHANGED <<bucket, head, scheme, cmd, force_push, contents, remote_to_remove,
                 sha, tmp, pre, puts, dels, ncmd, lockVars, loopVars, fetchVars>>

\* for object in objects_to_delete: self.s3.delete_object(Key=object["Key"]);
\* after the last one, return "ok <remote_ref>".
RemoveRemoteRefDelete(p) ==
  /\ UNCHANGED auxVars
  /\ pc[p] = "rm_delete"
  /\ \/ \E k \in todel[p] :
          /\ bucket' = bucket \ {k}
          /\ dels' = [dels EXCEPT ![p] = @ \cup {k}]
          /\ todel' = [todel EXCEPT ![p] = @ \ {k}]
          /\ IF todel[p] = {k}
             THEN /\ pc' = [pc EXCEPT ![p] = "done"]
                  /\ reply' = [reply EXCEPT ![p] = "ok"]
             ELSE UNCHANGED <<pc, reply>>
     \/ /\ pc' = [pc EXCEPT ![p] = "done"]
        /\ reply' = [reply EXCEPT ![p] = "rm_not_found_404"]
        /\ UNCHANGED <<bucket, dels, todel>>
     \/ /\ Raise(p, "ClientError")
        /\ UNCHANGED <<bucket, dels, todel>>
  /\ UNCHANGED <<head, scheme, cmd, force_push, contents, remote_to_remove, sha, tmp,
                 pre, puts, ncmd, lockVars, loopVars, fetchVars>>

\* process_cmd writes the reply of a finished push and goes on to the next
\* queued command, or main ends the process on the exception; cmd_push's locals
\* are gone and the client's next command is a new call.
ResetLocals(p) ==
  /\ pc' = [pc EXCEPT ![p] = "idle"]
  /\ cmd' = [cmd EXCEPT ![p] = NoCmd]
  /\ force_push' = [force_push EXCEPT ![p] = FALSE]
  /\ contents' = [contents EXCEPT ![p] = {}]
  /\ remote_to_remove' = [remote_to_remove EXCEPT ![p] = {}]
  /\ sha' = [sha EXCEPT ![p] = Unbound]
  /\ todel' = [todel EXCEPT ![p] = {}]
  /\ reply' = [reply EXCEPT ![p] = NoReply]
  /\ pre' = [pre EXCEPT ![p] = {}]
  /\ puts' = [puts EXCEPT ![p] = {}]
  /\ dels' = [dels EXCEPT ![p] = {}]
  /\ tmp' = [tmp EXCEPT ![p] = {}]

Ack(p) ==
  /\ UNCHANGED auxVars
  /\ pc[p] \in {"done", "raised"}
  /\ ResetLocals(p)
  /\ scheme' = [scheme EXCEPT ![p] = "S3"]
  /\ UNCHANGED <<bucket, head, ncmd, lockVars, loopVars, fetchVars>>

CmdPushStep(p) ==
  \/ CmdPushIsProtected(p)
  \/ CmdPushGetBundles(p)
  \/ CmdPushGit(p)
  \/ CmdPushPutBundle(p)
  \/ InitRemoteHeadHead(p)
  \/ InitRemoteHeadPut(p)
  \/ CmdPushDeleteOld(p)
  \/ CmdPushPutArchive(p)
  \/ CmdPushFinally(p)
  \/ RemoveRemoteRefList(p)
  \/ RemoveRemoteRefDelete(p)

PushStep(p) == CmdPushStep(p) \/ Ack(p)

\* Helper processes of different clients push to the bucket concurrently.
Next == \E p \in Procs : Start(p) \/ PushStep(p)

Spec == Init /\ [][Next]_vars

\* Commands issued one at a time: a command starts when no other is under way.
StartSeq(p) ==
  /\ \A q \in Procs : pc[q] = "idle"
  /\ \E c \in Cmds, sch \in UriSchemes : Begin(p, c, sch)
  /\ UNCHANGED ncmd

NextSeq == \E p \in Procs : StartSeq(p) \/ PushStep(p)

SpecSeq == Init /\ [][NextSeq]_vars

\* ------------------------------------------------------ the command loop
\* process_cmd, run by main for every line of stdin, of one helper process
\* (LoopProc); its pushes are the cmd_push steps above.
LoopProc == 1

\* The push lines the client sends in these runs.
LoopCmds ==
  {PushCmd(l, FALSE, r) : l \in {"s2", "nosuch", ""}, r \in PushRefs}
    \cup {PushCmd("s3", TRUE, r) : r \in PushRefs}

\* main: s3remote = S3Remote(uri_scheme=uri_scheme, ...), then the read loop.
LoopStart(sch) ==
  /\ UNCHANGED auxVars
  /\ lpos = "start"
  /\ lpos' = "read"
  /\ scheme' = [scheme EXCEPT ![LoopProc] = sch]
  /\ UNCHANGED <<bucket, head, pc, cmd, force_push, contents, remote_to_remove, sha,
                 todel, reply, tmp, pre, puts, dels, ncmd, lockVars, fetchVars,
                 mode, push_cmds, fetch_cmds, push_res, out, last, nrecv>>

\* Faulty variant of enter_mode: the test of the mode is inverted.
EnterModeEmptiesOnSame(cur, new, buf) == IF cur = new THEN <<>> ELSE buf

\* Faulty variant of enter_mode: the buffer of the mode entered is not emptied.
EnterModeKeeps(cur, new, buf) == buf

\* if self.mode != Mode.X: self.mode = Mode.X; self.x_cmds = []
enter_mode(cur, new, buf) == IF cur # new THEN <<>> ELSE buf

\* Faulty variant of AfterPushLine: the push is run as soon as its line is read
\* (the call process_cmd has commented out).
AfterPushLineRuns == "pushing"

\* After a push line: self.push_cmds.append(cmd.strip()), nothing else; the
\* loop reads the next line.
AfterPushLine == "read"

\* cmd.startswith("push")
RecvPush(c) ==
  /\ UNCHANGED auxVars
  /\ lpos = "read"
  /\ nrecv < MaxLines
  /\ Len(enter_mode(mode, "push", push_cmds)) < MaxQueue
  /\ mode' = "push"
  /\ push_cmds' = Append(enter_mode(mode, "push", push_cmds), c)
  /\ lpos' = AfterPushLine
  /\ last' = "push"
  /\ nrecv' = nrecv + 1
  /\ UNCHANGED <<pushVars, lockVars, fetchVars, fetch_cmds, push_res, out>>

\* cmd.startswith("fetch")
RecvFetch(f) ==
  /\ UNCHANGED auxVars
  /\ lpos = "read"
  /\ nrecv < MaxLines
  /\ Len(enter_mode(mode, "fetch", fetch_cmds)) < MaxQueue
  /\ mode' = "fetch"
  /\ fetch_cmds' = Append(enter_mode(mode, "fetch", fetch_cmds), f)
  /\ last' = "fetch"
  /\ nrecv' = nrecv + 1
  /\ UNCHANGED <<pushVars, lockVars, fetchVars, push_cmds, push_res, out, lpos>>

\* cmd == "\n": the flush of the active mode's buffer, or the bare terminator.
RecvEmpty ==
  /\ UNCHANGED auxVars
  /\ lpos = "read"
  /\ nrecv < MaxLines
  /\ last' = "empty"
  /\ nrecv' = nrecv + 1
  /\ IF mode = "push" /\ push_cmds # <<>>
     THEN /\ lpos' = "pushing"
          /\ UNCHANGED <<out, fpc>>
     ELSE IF mode = "fetch" /\ fetch_cmds # <<>>
     THEN /\ lpos' = "fetching"
          /\ fpc' = [w \in Workers |-> IF w <= Len(fetch_cmds) THEN "check" ELSE "idle"]
          /\ UNCHANGED out
     ELSE /\ out' = Append(out, Terminator)
          /\ UNCHANGED <<lpos, fpc>>
  /\ UNCHANGED <<pushVars, lockVars, mode, push_cmds, fetch_cmds, push_res,
                 fetched_refs, gets, unbundles, ftmp>>

\* push_res = [self.cmd_push(c) for c in self.push_cmds]: the next call.
FlushPushNext ==
  /\ UNCHANGED auxVars
  /\ lpos = "pushing"
  /\ Len(push_res) < Len(push_cmds)
  /\ Begin(LoopProc, push_cmds[Len(push_res) + 1], scheme[LoopProc])
  /\ UNCHANGED ncmd

\* cmd_push has returned its reply: it is kept in push_res.
FlushPushCollect ==
  /\ UNCHANGED auxVars
  /\ lpos = "pushing"
  /\ pc[LoopProc] = "done"
  /\ push_res' = Append(push_res, Line(cmd[LoopProc].remote, reply[LoopProc]))
  /\ ResetLocals(LoopProc)
  /\ UNCHANGED <<bucket, head, scheme, ncmd, lockVars, fetchVars, mode, push_cmds, fetch_cmds,
                 out, lpos, last, nrecv>>

\* cmd_push has raised: the exception leaves process_cmd, main writes a fatal
\* error to stderr and exits 1; nothing of the flush is written to stdout.
FlushPushRaised ==
  /\ UNCHANGED auxVars
  /\ lpos = "pushing"
  /\ pc[LoopProc] = "raised"
  /\ lpos' = "exited"
  /\ UNCHANGED <<pushVars, lockVars, fetchVars, mode, push_cmds, fetch_cmds, push_res,
                 out, last, nrecv>>

\* for res in push_res: sys.stdout.write(res); self.push_cmds = [];
\* sys.stdout.write("\n")
FlushPushWrite ==
  /\ UNCHANGED auxVars
  /\ lpos = "pushing"
  /\ pc[LoopProc] = "idle"
  /\ Len(push_res) = Len(push_cmds)
  /\ out' = out \o push_res \o <<Terminator>>
  /\ push_cmds' = <<>>
  /\ push_res' = <<>>
  /\ lpos' = "read"
  /\ UNCHANGED <<pushVars, lockVars, fetchVars, mode, fetch_cmds, last, nrecv>>

\* ------------------------------------------------------- the fetch batch
\* cmd_fetch, run for every queued command by a worker of the thread pool.
\* with self.fetched_refs_lock: if sha in self.fetched_refs: return
FetchCheck(w) ==
  /\ UNCHANGED auxVars
  /\ lpos = "fetching"
  /\ fpc[w] = "check"
  /\ fpc' = [fpc EXCEPT ![w] = IF fetch_cmds[w].sha \in fetched_refs THEN "done" ELSE "get"]
  /\ UNCHANGED <<pushVars, lockVars, loopVars, fetched_refs, gets, unbundles, ftmp>>

\* self.s3.get_object(Key=<prefix>/<ref>/<sha>.bundle): the body, written to
\* <temp_dir>/<sha>.bundle, or a ClientError (no such key, access denied, ...)
\* that leaves cmd_fetch.
FetchGet(w) ==
  /\ UNCHANGED auxVars
  /\ lpos = "fetching"
  /\ fpc[w] = "get"
  /\ gets' = [gets EXCEPT ![fetch_cmds[w].sha] = @ + 1]
  /\ \/ /\ BundleKey(fetch_cmds[w].ref, fetch_cmds[w].sha) \in bucket
        /\ fpc' = [fpc EXCEPT ![w] = "unbundle"]
        /\ ftmp' = ftmp \cup {w}
     \/ /\ fpc' = [fpc EXCEPT ![w] = "failed"]
        /\ UNCHANGED ftmp
  /\ UNCHANGED <<pushVars, lockVars, loopVars, fetched_refs, unbundles>>

\* Faulty variant of after_unbundle: the sha is appended in the finally block.
AfterUnbundleAlways(refs, s, ok) == refs \cup {s}

\* self.fetched_refs.append(sha) is the statement after git.unbundle inside the
\* try block: it is reached when unbundle has not raised.
after_unbundle(refs, s, ok) == IF ok THEN refs \cup {s} ELSE refs

\* git.unbundle(...); with self.fetched_refs_lock: self.fetched_refs.append(sha);
\* or unbundle raises. finally: the downloaded file is removed.
FetchUnbundle(w) ==
  /\ UNCHANGED auxVars
  /\ lpos = "fetching"
  /\ fpc[w] = "unbundle"
  /\ unbundles' = [unbundles EXCEPT ![fetch_cmds[w].sha] = @ + 1]
  /\ \E ok \in BOOLEAN :
       /\ fetched_refs' = after_unbundle(fetched_refs, fetch_cmds[w].sha, ok)
       /\ fpc' = [fpc EXCEPT ![w] = IF ok THEN "done" ELSE "failed"]
  /\ ftmp' = ftmp \ {w}
  /\ UNCHANGED <<pushVars, lockVars, loopVars, gets>>

\* Faulty variant of futures_wait: wait(futures, return_when=FIRST_COMPLETED)
\* with an executor that is not shut down.
FuturesWaitFirst(f) == \E w \in Workers : f[w] \in {"done", "failed"}

\* concurrent.futures.wait(futures), and the executor's shutdown at the end of
\* the with block: every future submitted has ended.
futures_wait(f) == \A w \in Workers : f[w] \in {"idle", "done", "failed"}

\* process_fetch_cmds: concurrent.futures.wait(futures) returns when every
\* worker has ended; no future's result() is asked for, so an exception a worker
\* ended with stays in its future. process_cmd then empties fetch_cmds and
\* writes the terminator.
FlushFetchDone ==
  /\ UNCHANGED auxVars
  /\ lpos = "fetching"
  /\ futures_wait(fpc)
  /\ fetch_cmds' = <<>>
  /\ out' = Append(out, Terminator)
  /\ lpos' = "read"
  /\ fpc' = [w \in Workers |-> "idle"]
  /\ UNCHANGED <<pushVars, lockVars, mode, push_cmds, push_res, last, nrecv,
                 fetched_refs, gets, unbundles, ftmp>>

NextLoop ==
  \/ \E sch \in UriSchemes : LoopStart(sch)
  \/ \E c \in LoopCmds : RecvPush(c)
  \/ \E f \in FetchCmds : RecvFetch(f)
  \/ RecvEmpty
  \/ FlushPushNext
  \/ CmdPushStep(LoopProc)
  \/ FlushPushCollect
  \/ FlushPushRaised
  \/ FlushPushWrite
  \/ \E w \in Workers : FetchCheck(w) \/ FetchGet(w) \/ FetchUnbundle(w)
  \/ FlushFetchDone

SpecLoop == Init /\ [][NextLoop]_vars

\* ------------------------------------------------------------ the upload
\* One upload of a file: cmd_push's bundle or archive, or the object of
\* LFSProcess.upload. A file that cannot be read has size 0 for
\* get_file_size and makes open raise.
\* complete_multipart_upload has not been called.
NoParts == <<[PartNumber |-> 0]>>

InitUpload ==
  /\ InitCore
  /\ bucket = {}
  /\ aux \in [usite : USites, usize : USizes, ureadable : BOOLEAN, upc : {"decide"},
              ustrategy : {"none"}, upart : {0}, uread : {Bytes(0, 0)}, uparts : {<<>>},
              urecv : {<<>>}, ucompleted : {NoParts}, ustate : {"none"}, uaborts : {0},
              uobj : {FALSE}, uret : {"none"}]

\* How an upload ends: returned to the caller with "ok" or "failed", or left by
\* an exception the caller does not catch.
UploadEnds(a, r) == [a EXCEPT !.upc = "returned", !.uret = r]

\* if should_use_multipart_upload(file): ... else: ...
UploadDecide ==
  /\ upc = "decide"
  /\ LET multipart == IF usite = "lfs"
                       THEN lfs_should_use_multipart_upload(usize, ureadable)
                       ELSE should_use_multipart_upload(usize, ureadable) IN
     aux' = [aux EXCEPT !.ustrategy = IF multipart THEN "multipart" ELSE "put",
                        !.upc = IF multipart THEN "mpu_create" ELSE "put"]
  /\ UNCHANGED coreVars

\* The standard upload: with open(file, "rb") as f: put_object(...) in cmd_push
\* (an OSError of open is not caught there), s3_bucket.upload_file in
\* LFSProcess.upload (every exception is caught).
UploadPut ==
  /\ upc = "put"
  /\ IF ~ureadable
     THEN aux' = UploadEnds(aux, IF usite = "lfs" THEN "failed" ELSE "raised")
     ELSE \/ aux' = UploadEnds([aux EXCEPT !.uobj = TRUE], "ok")
          \/ aux' = UploadEnds(aux, "failed")
  /\ UNCHANGED coreVars

\* multipart_upload_file: file_size == 0 returns False; create_multipart_upload,
\* whose failure is caught by the outer except (nothing to abort).
MpuCreate ==
  /\ upc = "mpu_create"
  /\ IF get_file_size(usize, ureadable) = Bytes(0, 0)
     THEN aux' = UploadEnds(aux, "failed")
     ELSE \/ aux' = [aux EXCEPT !.ustate = "pending", !.upart = 1, !.upc = "mpu_part"]
          \/ aux' = UploadEnds(aux, "failed")
  /\ UNCHANGED coreVars

\* The read loop: data = file_data.read(part_size); if not data: break;
\* upload_part(Body=data, PartNumber=part_number); parts.append({PartNumber,
\* ETag}); part_number += 1. urecv is what the store has received.
MpuUploadPart ==
  /\ upc = "mpu_part"
  /\ LET data == read(usize, uread) IN
     IF data = Bytes(0, 0)
     THEN aux' = [aux EXCEPT !.upc = "mpu_complete"]
     ELSE \/ aux' = [aux EXCEPT !.uread = bytes_add(@, data),
                                !.urecv = Append(@, [PartNumber |-> upart, size |-> data]),
                                !.uparts = Append(@, [PartNumber |-> upart,
                                                      ETag |-> ETag(upart)]),
                                !.upart = next_part_number(upart)]
          \/ aux' = [aux EXCEPT !.uread = bytes_add(@, data), !.upc = "mpu_abort"]
  /\ UNCHANGED coreVars

\* complete_multipart_upload(MultipartUpload={'Parts': parts}); return True
MpuComplete ==
  /\ upc = "mpu_complete"
  /\ LET a == [aux EXCEPT !.ucompleted = uparts] IN
     \/ aux' = UploadEnds([a EXCEPT !.ustate = "completed", !.uobj = TRUE], "ok")
     \/ aux' = [a EXCEPT !.upc = "mpu_abort"]
  /\ UNCHANGED coreVars

\* Faulty variant of abort_calls: the handler raises again without the abort.
AbortCallsSkipped(n) == n

\* The inner except: abort_multipart_upload(UploadId=upload_id) is called
abort_calls(n) == n + 1

\* except Exception: abort_multipart_upload(...); raise: the outer except
\* returns False. The abort call can fail as well; the outer except returns
\* False then too.
MpuAbort ==
  /\ upc = "mpu_abort"
  /\ LET n == abort_calls(uaborts) IN
     \/ /\ n > uaborts
        /\ aux' = UploadEnds([aux EXCEPT !.uaborts = n, !.ustate = "aborted"], "failed")
     \/ aux' = UploadEnds([aux EXCEPT !.uaborts = n], "failed")
  /\ UNCHANGED coreVars

NextUpload ==
  \/ UploadDecide
  \/ UploadPut
  \/ MpuCreate
  \/ MpuUploadPart
  \/ MpuComplete
  \/ MpuAbort

SpecUpload == InitUpload /\ [][NextUpload]_vars

\* ------------------------------------------------ lock manager (section 4.4)
\* acquire_lock(remote_ref) and the release are not in src/git_remote_s3/remote.py;
\* they follow the specification's Acquire and Release, step by step.
Holds(p, r) == lpc[p] = "held" /\ lref[p] = r
Holders(r) == {p \in Procs : Holds(p, r)}

\* The conditional create: put_object(Key=<prefix>/<ref>/LOCK#.lock, IfNoneMatch="*")
\* succeeds exactly when no object has the key.
cond_put_succeeds(b, r) == LockKey(r) \notin b

\* Faulty variant of lock_is_stale: no lock is ever found stale.
LockNeverStale(stale, r) == FALSE

\* now - LastModified > lock_ttl_seconds
lock_is_stale(stale, r) == r \in stale

\* A change of a lock object by p intervenes in the acquire of every other
\* process that is inside acquire.
Intervene(p) ==
  [q \in Procs |-> IF q # p /\ lpc[q] \notin {"idle", "held"} THEN FALSE ELSE alone[q]]

\* The process is done with its lock: the counters of its call of acquire are
\* gone.
AcquireReturned(p) ==
  /\ attempts' = [attempts EXCEPT ![p] = 0]
  /\ ldels' = [ldels EXCEPT ![p] = 0]

\* Acquire(ref) is called.
AcquireLock(p) ==
  /\ UNCHANGED auxVars
  /\ lpc[p] = "idle"
  /\ \E r \in PushRefs : lref' = [lref EXCEPT ![p] = r]
  /\ lpc' = [lpc EXCEPT ![p] = "cond_put"]
  /\ attempts' = [attempts EXCEPT ![p] = 0]
  /\ ldels' = [ldels EXCEPT ![p] = 0]
  /\ alone' = [alone EXCEPT ![p] = TRUE]
  /\ UNCHANGED <<pushVars, loopVars, fetchVars, lockStale>>

\* Steps 1 and 2: the conditional put; on success the lock is held. On 412 the
\* existing lock is inspected, unless the attempts are used up.
LockCondPut(p) ==
  /\ UNCHANGED auxVars
  /\ lpc[p] = "cond_put"
  /\ attempts' = [attempts EXCEPT ![p] = @ + 1]
  /\ IF cond_put_succeeds(bucket, lref[p])
     THEN /\ bucket' = bucket \cup {LockKey(lref[p])}
          /\ lockStale' = lockStale \ {lref[p]}
          /\ lpc' = [lpc EXCEPT ![p] = "held"]
          /\ alone' = [Intervene(p) EXCEPT ![p] = TRUE]
     ELSE /\ lpc' = [lpc EXCEPT ![p] = "head"]
          /\ UNCHANGED <<bucket, lockStale, alone>>
  /\ UNCHANGED <<head, scheme, pc, cmd, force_push, contents, remote_to_remove, sha,
                 todel, reply, tmp, pre, puts, dels, ncmd, lref, ldels,
                 loopVars, fetchVars>>

\* Step 3: head_object of the existing lock; a stale lock is to be deleted, a
\* fresh one (or one that is gone by now) is retried while attempts remain.
LockHead(p) ==
  /\ UNCHANGED auxVars
  /\ lpc[p] = "head"
  /\ lpc' = [lpc EXCEPT ![p] =
        IF LockKey(lref[p]) \in bucket /\ lock_is_stale(lockStale, lref[p])
        THEN "delete_stale"
        ELSE IF attempts[p] < MaxAttempts THEN "cond_put" ELSE "failed"]
  /\ UNCHANGED <<pushVars, loopVars, fetchVars, lockStale, lref, attempts, ldels, alone>>

\* Step 3: delete_object of the lock judged stale, then the retry (step 4 bounds
\* the retries).
LockDeleteStale(p) ==
  /\ UNCHANGED auxVars
  /\ lpc[p] = "delete_stale"
  /\ bucket' = bucket \ {LockKey(lref[p])}
  /\ lockStale' = lockStale \ {lref[p]}
  /\ lpc' = [lpc EXCEPT ![p] = IF attempts[p] < MaxAttempts THEN "cond_put" ELSE "failed"]
  /\ ldels' = [ldels EXCEPT ![p] = @ + 1]
  /\ alone' = Intervene(p)
  /\ UNCHANGED <<head, scheme, pc, cmd, force_push, contents, remote_to_remove, sha,
                 todel, reply, tmp, pre, puts, dels, ncmd, lref, attempts,
                 loopVars, fetchVars>>

\* Release(ref): delete the lock key.
ReleaseLock(p) ==
  /\ UNCHANGED auxVars
  /\ lpc[p] = "held"
  /\ bucket' = bucket \ {LockKey(lref[p])}
  /\ lockStale' = lockStale \ {lref[p]}
  /\ lpc' = [lpc EXCEPT ![p] = "idle"]
  /\ alone' = [Intervene(p) EXCEPT ![p] = TRUE]
  /\ AcquireReturned(p)
  /\ UNCHANGED <<head, scheme, pc, cmd, force_push, contents, remote_to_remove, sha,
                 todel, reply, tmp, pre, puts, dels, ncmd, lref,
                 loopVars, fetchVars>>

\* Acquisition failed: the caller gives up; a later call starts afresh.
LockGiveUp(p) ==
  /\ UNCHANGED auxVars
  /\ lpc[p] = "failed"
  /\ lpc' = [lpc EXCEPT ![p] = "idle"]
  /\ alone' = [alone EXCEPT ![p] = TRUE]
  /\ AcquireReturned(p)
  /\ UNCHANGED <<pushVars, loopVars, fetchVars, lockStale, lref>>

\* A holder crashes without releasing: the lock object stays.
LockCrash(p) ==
  /\ UNCHANGED auxVars
  /\ lpc[p] = "held"
  /\ lpc' = [lpc EXCEPT ![p] = "idle"]
  /\ alone' = [alone EXCEPT ![p] = TRUE]
  /\ AcquireReturned(p)
  /\ UNCHANGED <<pushVars, loopVars, fetchVars, lockStale, lref>>

\* Time passes: the lock of r becomes older than lock_ttl_seconds.
Tick(r) ==
  /\ UNCHANGED auxVars
  /\ LockKey(r) \in bucket
  /\ r \notin lockStale
  /\ lockStale' = lockStale \cup {r}
  /\ UNCHANGED <<pushVars, loopVars, fetchVars, lpc, lref, attempts, ldels, alone>>

LockStep(p) ==
  \/ AcquireLock(p)
  \/ LockCondPut(p)
  \/ LockHead(p)
  \/ LockDeleteStale(p)
  \/ ReleaseLock(p)
  \/ LockGiveUp(p)
  \/ LockCrash(p)

NextLock ==
  \/ \E p \in Procs : LockStep(p)
  \/ \E r \in PushRefs : Tick(r)

SpecLock == Init /\ [][NextLock]_vars

\* The same with every holder releasing (or crashing) before its lock is older
\* than the TTL: only a lock nobody holds becomes stale.
TickUnheld(r) ==
  /\ Holders(r) = {}
  /\ Tick(r)

NextLockTimely ==
  \/ \E p \in Procs : LockStep(p)
  \/ \E r \in PushRefs : TickUnheld(r)

SpecLockTimely == Init /\ [][NextLockTimely]_vars

\* A helper process pushing (cmd_push as it is in remote.py, one command after
\* the other) while another process uses the lock manager on the same refs.
Locker == 1
Pusher == 2

NextContended ==
  \/ StartSeq(Pusher)
  \/ PushStep(Pusher)
  \/ LockStep(Locker)
  \/ \E r \in PushRefs : Tick(r)

SpecContended == Init /\ [][NextContended]_vars

\* The same with the store answering every request, every running process
\* taking its next step, and the clock advancing.
SpecLockFair ==
  /\ Init
  /\ [][NextLockTimely]_vars
  /\ \A p \in Procs : WF_vars(LockStep(p))
  /\ WF_vars(TickUnheld(RefMain))

\* ---------------------------------------------------------------- claims
NonDelete(p) == cmd[p] # NoCmd /\ cmd[p].local # ""
IsDelete(p) == cmd[p] # NoCmd /\ cmd[p].local = ""
Remote(p) == cmd[p].remote
Prior(p) == Bundles(pre[p], cmd[p].remote)
Returned(p) == pc[p] = "done"

\* C1: when the helper processes each run one non-delete push of a different sha
\* to the same ref, concurrently, from a ref directory with zero or one bundle,
\* the directory holds exactly one bundle once all of them have returned. The
\* pushes considered are those no object-store call of which fails and whose sha
\* is not the one of the bundle already there (that push is the case of C3).
C1_ConcurrentPushesLeaveOneBundle ==
  \A r \in PushRefs :
    (/\ \A p \in Procs : /\ Returned(p)
                         /\ ncmd[p] = 1
                         /\ cmd[p].local \in Shas
                         /\ cmd[p].remote = r
                         /\ reply[p] # "client_error"
                         /\ BundleKey(r, cmd[p].local) \notin pre[p]
     /\ \A p, q \in Procs : p # q => cmd[p].local # cmd[q].local)
    => Cardinality(Bundles(bucket, r)) = 1

\* C2: at most one process holds the lock of a ref, in every reachable state.
C2_AtMostOneLockHolder ==
  \A r \in PushRefs : Cardinality(Holders(r)) <= 1

\* C3: a non-delete push of sha L that replies ok, from a ref directory with no
\* bundle or one bundle of any sha, leaves exactly the bundle L in the directory.
C3_OkPushLeavesItsBundle ==
  \A p \in Procs :
    (Returned(p) /\ NonDelete(p) /\ reply[p] = "ok" /\ Cardinality(Prior(p)) <= 1)
    => Bundles(bucket, Remote(p)) = {BundleKey(Remote(p), sha[p])}

\* C4: with commands issued one at a time from a bucket with at most one bundle
\* per ref, every ref directory holds at most one bundle whenever no command is
\* under way, pushes that failed on an object-store error included.
C4_AtMostOneBundleAtRest ==
  (\A p \in Procs : pc[p] \in {"idle", "done"})
  => \A r \in Refs : Cardinality(Bundles(bucket, r)) <= 1

\* C5: a non-force push of sha L to a ref whose single bundle R is not an
\* ancestor of L puts nothing, deletes nothing, and replies the not-ancestor
\* error.
C5_Case(p, R) ==
  /\ NonDelete(p)
  /\ ~cmd[p].force
  /\ cmd[p].local \in Shas
  /\ Prior(p) = {BundleKey(Remote(p), R)}
  /\ ~is_ancestor(R, cmd[p].local)

C5_NonFastForwardRejected ==
  \A p \in Procs : \A R \in Shas :
    C5_Case(p, R)
    => /\ puts[p] = {}
       /\ dels[p] = {}
       /\ bucket = pre[p]
       /\ Returned(p) => reply[p] = "not_ancestor"

C5_Witness ==
  \E p \in Procs : \E R \in Shas :
    C5_Case(p, R) /\ Returned(p) /\ reply[p] = "not_ancestor"

\* C6: a force push of sha L to an unprotected ref whose single bundle R is not
\* an ancestor of L, when no object-store call fails, replies ok, puts the one
\* bundle L (and repo.zip exactly under S3+ZIP) and deletes exactly R's bundle.
C6_Case(p, R) ==
  /\ Returned(p)
  /\ NonDelete(p)
  /\ cmd[p].force
  /\ cmd[p].local \in Shas
  /\ ProtectedKey(Remote(p)) \notin pre[p]
  /\ Prior(p) = {BundleKey(Remote(p), R)}
  /\ ~is_ancestor(R, cmd[p].local)
  /\ reply[p] # "client_error"

C6_ForcePushReplaces ==
  \A p \in Procs : \A R \in Shas :
    C6_Case(p, R)
    => LET r == Remote(p)
           L == cmd[p].local
       IN /\ reply[p] = "ok"
          /\ {k \in puts[p] : k.kind = "bundle"} = {BundleKey(r, L)}
          /\ puts[p] \subseteq {BundleKey(r, L), ZipKey(r), HeadKey}
          /\ (ZipKey(r) \in puts[p]) <=> (scheme[p] = "S3_ZIP")
          /\ dels[p] = {BundleKey(r, R)}
          /\ Bundles(bucket, r) = {BundleKey(r, L)}

C6_Witness ==
  \E p \in Procs : \E R \in Shas :
    C6_Case(p, R) /\ reply[p] = "ok" /\ scheme[p] = "S3_ZIP"

\* C7: a push, forced or not, to a protected ref whose bundle is R: when its sha
\* L is not a descendant of R it puts nothing, deletes nothing and replies the
\* not-ancestor error; and whatever L is, once the push has returned the ref
\* still holds a bundle, and holds none but R and descendants of R.
C7_Case(p, R) ==
  /\ NonDelete(p)
  /\ cmd[p].local \in Shas
  /\ ProtectedKey(Remote(p)) \in pre[p]
  /\ Prior(p) = {BundleKey(Remote(p), R)}

C7_ProtectedOnlyFastForward ==
  \A p \in Procs : \A R \in Shas :
    C7_Case(p, R)
    => /\ ~is_ancestor(R, cmd[p].local)
          => /\ puts[p] = {}
             /\ dels[p] = {}
             /\ Returned(p) => reply[p] = "not_ancestor"
       /\ Returned(p)
          => /\ Bundles(bucket, Remote(p)) # {}
             /\ \A k \in Bundles(bucket, Remote(p)) : is_ancestor(R, k.sha)

\* C8: a non-delete push, forced or not, to a ref whose directory holds more than
\* one bundle puts nothing, deletes nothing, leaves the bucket as found and
\* replies the multiple-bundles error.
C8_Case(p) == NonDelete(p) /\ Cardinality(Prior(p)) > 1

C8_MultipleBundlesRefused ==
  \A p \in Procs :
    C8_Case(p)
    => /\ puts[p] = {}
       /\ dels[p] = {}
       /\ bucket = pre[p]
       /\ Returned(p) => reply[p] = "multiple_bundles"

C8_Witness ==
  \E p \in Procs :
    C8_Case(p) /\ cmd[p].force /\ Returned(p) /\ reply[p] = "multiple_bundles"

\* C9: a delete push (no object-store error) replies ok exactly when the ref
\* holds exactly one bundle (S3) or exactly one bundle and repo.zip (S3+ZIP), and
\* otherwise deletes nothing.
C9_DeleteExactlyWhenOneBundle ==
  \A p \in Procs :
    (Returned(p) /\ IsDelete(p) /\ reply[p] # "rm_not_found_404")
    => LET r == Remote(p)
           one == Cardinality(Bundles(pre[p], r)) = 1
           present == IF scheme[p] = "S3" THEN one ELSE one /\ ZipKey(r) \in pre[p]
       IN /\ (reply[p] = "ok") <=> present
          /\ ~present => dels[p] = {}

\* C10: a push whose local ref git rev-parse does not know returns the not-found
\* reply, without raising, and puts and deletes nothing.
C10_RevParseFailureReplies ==
  \A p \in Procs :
    (NonDelete(p) /\ ~rev_parse_ok(cmd[p].local))
    => /\ ~(pc[p] = "raised" /\ reply[p] = "UnboundLocalError")
       /\ Returned(p) => reply[p] = "not_found"
       /\ puts[p] = {}
       /\ dels[p] = {}

\* C11: a flush in push mode with n queued pushes writes exactly n reply lines,
\* the i-th for the remote ref of the i-th queued command, then the terminator;
\* and the pushes are run one after another in arrival order. The flushes
\* considered are those no object-store call of which raises out of cmd_push.
C11_Step ==
  /\ (/\ lpos = "pushing"
      /\ lpos' # "pushing"
      /\ ~(pc[LoopProc] = "raised" /\ reply[LoopProc] = "ClientError"))
     => LET n == Len(push_cmds) IN
        /\ Len(out') = Len(out) + n + 1
        /\ SubSeq(out', 1, Len(out)) = out
        /\ \A i \in 1..n : /\ out'[Len(out) + i].ref = push_cmds[i].remote
                           /\ out'[Len(out) + i].text \in {"ok"} \cup ErrorReplies
        /\ out'[Len(out) + n + 1] = Terminator
  /\ (lpos = "pushing" /\ pc[LoopProc] = "idle" /\ pc'[LoopProc] # "idle")
     => cmd'[LoopProc] = push_cmds[Len(push_res) + 1]

C11_FlushRepliesInOrder == [][C11_Step]_vars

\* C12: reading a push or fetch line only appends it to its buffer: the step
\* writes nothing, touches neither the bucket nor the local repository and
\* starts no push and no fetch worker; pushes and workers run only after an
\* empty line has been read.
C12_Step ==
  /\ (nrecv' = nrecv + 1 /\ last' \in {"push", "fetch"})
     => /\ out' = out
        /\ bucket' = bucket
        /\ head' = head
        /\ pc' = pc
        /\ tmp' = tmp
        /\ fpc' = fpc
        /\ gets' = gets
        /\ unbundles' = unbundles
        /\ fetched_refs' = fetched_refs
        /\ lpos' = "read"
        /\ Len(IF last' = "push" THEN push_cmds' ELSE fetch_cmds') >= 1
  /\ (lpos' \in {"pushing", "fetching"} \/ pc'[LoopProc] # "idle"
        \/ \E w \in Workers : fpc'[w] # "idle")
     => last' = "empty"

C12_QueuedUntilTerminator == [][C12_Step]_vars

C12_Witness ==
  /\ last = "push"
  /\ Len(push_cmds) = 2
  /\ lpos = "read"
  /\ out = <<>>

\* C13 as stated: at a change of mode the buffer of the outgoing mode is empty
\* right after the step.
C13_OutgoingBufferDiscarded ==
  [][/\ (mode = "push" /\ mode' = "fetch") => push_cmds' = <<>>
     /\ (mode = "fetch" /\ mode' = "push") => fetch_cmds' = <<>>]_vars

\* C13 amended: at a change of mode the buffer of the mode entered is emptied
\* before the command is appended (it then holds that command alone) and the
\* buffer of the outgoing mode is left as it is; only the buffer of the active
\* mode is ever flushed, so the leftover commands are never processed.
C13_IncomingBufferEmptied ==
  [][/\ (mode # "fetch" /\ mode' = "fetch")
        => Len(fetch_cmds') = 1 /\ push_cmds' = push_cmds
     /\ (mode # "push" /\ mode' = "push")
        => Len(push_cmds') = 1 /\ fetch_cmds' = fetch_cmds
     /\ lpos' = "pushing" => mode' = "push"
     /\ lpos' = "fetching" => mode' = "fetch"]_vars

C13_Witness ==
  /\ mode = "fetch"
  /\ last = "fetch"
  /\ Len(fetch_cmds) = 1
  /\ push_cmds # <<>>

\* C14: in a fetch batch that names a sha more than once, once every worker has
\* ended (none of them on an error), the bundle of that sha has been downloaded
\* once and unbundled once. The batch is the helper's first.
C14_DuplicateFetchedOnce ==
  (/\ lpos = "fetching"
   /\ nrecv = Len(fetch_cmds) + 1
   /\ \A w \in Workers : fpc[w] \in {"idle", "done"})
  => \A w \in 1..Len(fetch_cmds) :
       /\ gets[fetch_cmds[w].sha] = 1
       /\ unbundles[fetch_cmds[w].sha] = 1

\* C15: a fetch batch one of whose workers failed does not end with the
\* terminator: the helper ends on a fatal error, and writes nothing for it.
C15_FetchFailurePropagated ==
  [][(lpos = "fetching" /\ lpos' # "fetching" /\ \E w \in Workers : fpc[w] = "failed")
     => (lpos' = "exited" /\ out' = out)]_vars

\* C16: an acquire that finds the lock present (412) and older than the TTL,
\* with no other process changing the lock meanwhile, deletes it exactly once,
\* succeeds at the next conditional put and holds the key <prefix>/<ref>/LOCK#.lock;
\* and acquire never deletes a lock whose age does not exceed the TTL. (The
\* first part is stated for an acquire that has attempts left when it finds
\* the stale lock.)
C16_Step ==
  \A p \in Procs :
    /\ (/\ lpc[p] = "delete_stale" /\ lpc'[p] # "delete_stale"
        /\ alone[p] /\ attempts[p] < MaxAttempts)
          => /\ ldels'[p] = 1
             /\ lpc'[p] = "cond_put"
             /\ LockKey(lref[p]) \notin bucket'
    /\ (lpc[p] = "cond_put" /\ lpc'[p] # "cond_put" /\ ldels[p] >= 1 /\ alone[p])
          => /\ lpc'[p] = "held"
             /\ ldels'[p] = 1
             /\ LockKey(lref[p]) \in bucket'
    /\ (lpc[p] = "delete_stale" /\ lpc'[p] # "delete_stale" /\ LockKey(lref[p]) \in bucket)
          => lref[p] \in lockStale
C16_StaleLockDeletedOnce == [][C16_Step]_vars

\* C19: when a holder has crashed and left its lock behind, the lock does not
\* stay orphaned: once it is older than the TTL a push that keeps calling
\* acquire deletes it and the lock is acquired again.
Orphaned(r) == LockKey(r) \in bucket /\ Holders(r) = {}
C19_OrphanedLockReacquired == Orphaned(RefMain) ~> (\E p \in Procs : Holds(p, RefMain))
C19_Witness == \E p \in Procs : Holds(p, RefMain) /\ ldels[p] >= 1 /\ LockKey(RefMain) \in bucket

\* C17: acquire gives up after a bounded number of attempts, and a push that
\* found the lock of its ref present uploads nothing and deletes nothing while
\* another process holds that lock (it is still inside acquire, or has given up
\* and replies with an error).
C17_Step ==
  /\ \A p \in Procs : attempts'[p] <= MaxAttempts
  /\ \A p \in Procs :
       (/\ LockKey(cmd[p].remote) \in pre[p] \cap bucket
        /\ \E q \in Procs \ {p} : Holds(q, cmd[p].remote))
         => /\ puts'[p] \subseteq puts[p]
            /\ dels'[p] \subseteq dels[p]
            /\ (pc[p] # "done" /\ pc'[p] = "done") => reply'[p] \in ErrorReplies
C17_NoUploadWhileLockHeldElsewhere == [][C17_Step]_vars

\* C20: a push (the delete path included) holds the lock of its ref whenever it
\* lists the ref's objects or puts or deletes a bundle, repo.zip or HEAD.
C20_Step ==
  \A p \in Procs :
    (\/ pc[p] \in {"get_bundles", "rm_list"} /\ pc'[p] # pc[p]
     \/ puts'[p] \ puts[p] # {}
     \/ dels'[p] \ dels[p] # {})
      => Holds(p, cmd[p].remote)
C20_LockHeldBeforeStoreAccess == [][C20_Step]_vars

\* C21: the upload strategy follows from the file size alone: an upload that
\* reaches the store is a single put when the file has at most 2 GiB (the
\* boundary included) and a multipart upload when it has more, for the bundle,
\* the archive and the LFS object alike.
C21_StrategyBySize ==
  /\ ustrategy # "none" /\ ureadable
       => (ustrategy = "multipart" <=> size_gt(usize, Bytes(2048, 0)))
  /\ ustate # "none" => size_gt(usize, Bytes(2048, 0))
  /\ uobj /\ ustate = "none" => ~size_gt(usize, Bytes(2048, 0))
C21_Witness ==
  /\ usize = Bytes(2048, 0) /\ ustrategy = "put" /\ uobj /\ uret = "ok"

\* C22: a multipart upload that was initiated ends completed or aborted: when
\* an upload_part call or the complete call fails, abort_multipart_upload is
\* called for the upload, the uploader reports failure and no completed object
\* is under the key from this upload.
C22_MultipartCompletedOrAborted ==
  (upc = "returned" /\ ustate # "none")
    => \/ ustate = "completed" /\ uret = "ok" /\ uobj /\ uaborts = 0
       \/ uaborts = 1 /\ uret = "failed" /\ ~uobj /\ ustate # "completed"
C22_Witness ==
  /\ upc = "returned" /\ ustate = "aborted" /\ uaborts = 1 /\ upart > 1

\* C23: when a push or a fetch has returned (ok, an error reply or an
\* exception) no temporary file it created is left: neither the bundle file
\* nor, under S3+ZIP, the archive file.
C23_TempFilesRemoved ==
  /\ \A p \in Procs : pc[p] \in {"done", "raised"} => tmp[p] = {}
  /\ \A w \in Workers : fpc[w] \in {"done", "failed"} => w \notin ftmp

\* ------------------------------------------------ the remote HEAD pointer
\* Pushes to two refs of an empty bucket, from helper processes of different
\* clients: init_remote_head is run by every push that has put its bundle.
HeadCmds == {PushCmd("s2", f, r) : f \in BOOLEAN, r \in Refs}
              \cup {PushCmd("", FALSE, r) : r \in Refs}

InitHead ==
  /\ bucket = {}
  /\ head = NoRef
  /\ InitLocals
  /\ InitLock
  /\ InitLoop
  /\ InitFetch
  /\ InitAux

StartHead(p) ==
  /\ ncmd[p] < MaxCmds
  /\ ncmd' = [ncmd EXCEPT ![p] = @ + 1]
  /\ \E c \in HeadCmds, sch \in UriSchemes : Begin(p, c, sch)

NextHead == \E p \in Procs : StartHead(p) \/ PushStep(p)

SpecHead == InitHead /\ [][NextHead]_vars

\* C24: once <prefix>/HEAD exists its content is never changed by a push, to
\* whatever ref and from whatever process; it is written only when it does not
\* exist.
C24_Step == head # NoRef => head' = head
C24_HeadWrittenOnce == [][C24_Step]_vars

\* ----------------------------------------------------------- cmd_list
\* Keys, bodies and output lines are sequences of characters, so that
\* startswith, endswith, split, join, strip and the regular expression of
\* cmd_list are computed on them.
Str_refs == <<"r", "e", "f", "s">>
Str_bundle == <<"b", "u", "n", "d", "l", "e">>
Str_dot_bundle == <<".">> \o Str_bundle
Str_HEAD == <<"H", "E", "A", "D">>
Prefix == <<"p">>
HexChars == {"a", "b", "c", "d", "e", "f",
             "0", "1", "2", "3", "4", "5", "6", "7", "8", "9"}
Whitespace == {" ", "\n", "\t", "\r"}
ShaLen == 40

\* The 40 hexadecimal characters of a commit id.
ShaStr(c) == [i \in 1..ShaLen |-> c]

startswith(x, a) == IsStrPrefix(a, x)
endswith(x, a) == Len(a) <= Len(x) /\ SubSeq(x, Len(x) - Len(a) + 1, Len(x)) = a
removeprefix(x, a) == IF startswith(x, a) THEN SubSeq(x, Len(a) + 1, Len(x)) ELSE x

\* x.split(c)
RECURSIVE split(_, _)
split(x, c) ==
  IF \E i \in 1..Len(x) : x[i] = c
  THEN LET i == CHOOSE n \in 1..Len(x) : x[n] = c /\ \A j \in 1..(n - 1) : x[j] # c
       IN <<SubSeq(x, 1, i - 1)>> \o split(SubSeq(x, i + 1, Len(x)), c)
  ELSE <<x>>

\* c.join(parts)
RECURSIVE join(_, _)
join(c, parts) ==
  IF parts = <<>> THEN <<>>
  ELSE IF Len(parts) = 1 THEN parts[1]
  ELSE parts[1] \o <<c>> \o join(c, Tail(parts))

\* x.strip()
strip(x) ==
  LET ns == {i \in 1..Len(x) : x[i] \notin Whitespace}
  IN IF ns = {} THEN <<>>
     ELSE SubSeq(x, CHOOSE i \in ns : \A j \in ns : i <= j,
                    CHOOSE i \in ns : \A j \in ns : j <= i)

\* "/".join(o.split("/")[:-1]) and o.split("/")[-1]
parent(o) == LET e == split(o, "/") IN join("/", SubSeq(e, 1, Len(e) - 1))
basename(o) == LET e == split(o, "/") IN e[Len(e)]

\* The key form <a>/<b>/<c>/<40 hex>.bundle: the dot is a dot and the key ends
\* after "bundle".
MatchesKeyForm(x) ==
  \E i, j, k \in {n \in 1..Len(x) : x[n] = "/"} :
    /\ 1 < i /\ i + 1 < j /\ j + 1 < k
    /\ \A n \in 1..k : x[n] # "\n"
    /\ Len(x) = k + ShaLen + 7
    /\ \A n \in 1..ShaLen : x[k + n] \in HexChars
    /\ SubSeq(x, k + ShaLen + 1, k + ShaLen + 7) = Str_dot_bundle

\* re.match(".+/.+/.+/[a-f0-9]{40}.bundle", x): the match starts at the first
\* character and need not reach the last; "." is any character but a newline.
re_match(x) ==
  \E i, j, k \in {n \in 1..Len(x) : x[n] = "/"} :
    /\ 1 < i /\ i + 1 < j /\ j + 1 < k
    /\ \A n \in 1..k : x[n] # "\n"
    /\ Len(x) >= k + ShaLen + 7
    /\ \A n \in 1..ShaLen : x[k + n] \in HexChars
    /\ x[k + ShaLen + 1] # "\n"
    /\ SubSeq(x, k + ShaLen + 2, k + ShaLen + 7) = Str_bundle

Reverse(q) == [i \in 1..Len(q) |-> q[Len(q) + 1 - i]]

\* list_refs: listing is the bucket's listing sorted by LastModified; it is reversed,
\* the keys under <prefix>/refs that end in .bundle are kept and the prefix and
\* the slash after it are cut off.
list_refs_keep(k) ==
  startswith(k, Prefix \o <<"/">> \o Str_refs) /\ endswith(k, Str_dot_bundle)
list_refs(listing) ==
  LET kept == SelectSeq(Reverse(listing), list_refs_keep)
  IN [i \in 1..Len(kept) |-> Tail(removeprefix(kept[i], Prefix))]

\* get_remote_head: the stripped body of <prefix>/HEAD.
get_remote_head(body) == strip(body)

\* The lines cmd_list writes for the listing objs; hd is what get_object of
\* <prefix>/HEAD gave.
head_lines(objs, hd, for_push) ==
  IF for_push \/ hd.code # "ok" THEN <<>>
  ELSE LET is_head(o) == parent(o) = get_remote_head(hd.body)
           sel == SelectSeq(objs, is_head)
       IN [i \in 1..Len(sel) |-> <<"@">> \o parent(sel[i]) \o <<" ">> \o Str_HEAD]
bundle_lines(objs) ==
  LET sel == SelectSeq(objs, re_match)
  IN [i \in 1..Len(sel) |-> split(basename(sel[i]), ".")[1] \o <<" ">> \o parent(sel[i])]
cmd_list(listing, hd, for_push) ==
  LET objs == list_refs(listing)
  IN head_lines(objs, hd, for_push) \o bundle_lines(objs) \o << <<>> >>

\* The keys a bucket may hold under the prefix: the bundles a push puts under
\* refs/heads/m (commits aaa..., bbb...) and under the two-level ref refs/m, a
\* bundle whose name has a character other than the dot before "bundle", the
\* archive of S3+ZIP and an LFS object.
Str_refs_heads_m == Str_refs \o <<"/", "h", "e", "a", "d", "s", "/", "m">>
Str_refs_m == Str_refs \o <<"/", "m">>
Str_refs_heads_z == Str_refs \o <<"/", "h", "e", "a", "d", "s", "/", "z">>
ObjKey(ref, name) == Prefix \o <<"/">> \o ref \o <<"/">> \o name
ListKeys ==
  {ObjKey(Str_refs_heads_m, ShaStr("a") \o Str_dot_bundle),
   ObjKey(Str_refs_heads_m, ShaStr("b") \o Str_dot_bundle),
   ObjKey(Str_refs_m, ShaStr("a") \o Str_dot_bundle),
   ObjKey(Str_refs_heads_m, ShaStr("c") \o <<"x">> \o Str_bundle \o Str_dot_bundle),
   ObjKey(Str_refs_heads_m, <<"r", "e", "p", "o", ".", "z", "i", "p">>),
   ObjKey(<<"l", "f", "s">>, ShaStr("d"))}

\* What get_object of <prefix>/HEAD gives: NoSuchKey when the object is
\* missing, else the body init_remote_head has put there (a ref name; one with
\* a trailing newline as written by hand), or another ClientError.
HeadBodies == {Str_refs_heads_m, Str_refs_heads_m \o <<"\n">>, Str_refs_m, Str_refs_heads_z}

\* The listings of at most MaxObjs of the keys, in the order of LastModified.
Listings == {q \in UNION {[1..n -> ListKeys] : n \in 0..MaxObjs} :
               \A i, j \in DOMAIN q : i # j => q[i] # q[j]}

\* What get_object of <prefix>/HEAD gave: the body, or the code of a ClientError.
HeadRead(c, b) == [code |-> c, body |-> b]
NoBody == <<>>

InitList ==
  /\ InitCore
  /\ bucket = {}
  /\ aux \in [ls_contents : Listings, ls_body : HeadBodies \cup {NoBody}, ls_pc : {"idle"},
              ls_for_push : {FALSE}, ls_code : {"none"}, ls_out : {<<>>}]

\* process_cmd: "list" and "list for-push" call cmd_list, which writes its
\* lines to stdout.
CmdList(for_push) ==
  /\ ls_pc = "idle"
  /\ \E hd \in (IF ls_body = NoBody THEN {HeadRead("NoSuchKey", NoBody)}
                ELSE {HeadRead("ok", ls_body), HeadRead("AccessDenied", NoBody)}) :
       aux' = [aux EXCEPT !.ls_code = IF for_push THEN "none" ELSE hd.code,
                          !.ls_out = cmd_list(ls_contents, hd, for_push),
                          !.ls_for_push = for_push,
                          !.ls_pc = "listed"]
  /\ UNCHANGED coreVars

NextList == \E for_push \in BOOLEAN : CmdList(for_push)

SpecList == InitList /\ [][NextList]_vars

\* The lines of stdout that are head lines ("@...") and bundle lines.
HeadLineNrs == {i \in 1..(Len(ls_out) - 1) : ls_out[i] # <<>> /\ ls_out[i][1] = "@"}
BundleLineNrs == (1..(Len(ls_out) - 1)) \ HeadLineNrs
ListedKeys == {i \in 1..Len(ls_contents) :
                 MatchesKeyForm(Tail(removeprefix(ls_contents[i], Prefix)))}
IsShaRefLine(l) ==
  /\ Len(l) > ShaLen + 1
  /\ \A n \in 1..ShaLen : l[n] \in HexChars
  /\ l[ShaLen + 1] = " "
  /\ \A n \in (ShaLen + 2)..Len(l) : l[n] \notin Whitespace

\* C25: whatever the bucket holds, the output of list is at most one line
\* "@<ref> HEAD", which comes first, then lines "<40-hex-sha> <ref-path>", one
\* for each key of the form <a>/<b>/<c>/<40 hex>.bundle and none for any other
\* key, then one empty line.
C25_ListOutputForm ==
  ls_pc = "listed" =>
    /\ Len(ls_out) >= 1 /\ ls_out[Len(ls_out)] = <<>>
    /\ HeadLineNrs \subseteq {1}
    /\ \A i \in BundleLineNrs : IsShaRefLine(ls_out[i])
    /\ Cardinality(BundleLineNrs) = Cardinality(ListedKeys)
    /\ \A i \in BundleLineNrs : \E k \in ListedKeys :
         LET o == Tail(removeprefix(ls_contents[k], Prefix))
         IN ls_out[i] = split(basename(o), ".")[1] \o <<" ">> \o parent(o)

\* C26: list writes the line "@<head-ref> HEAD" exactly when the command is not
\* list for-push, <prefix>/HEAD has been read and the ref it names has a bundle
\* line in the output; list for-push never writes it.
C26_HeadLineIffListedRef ==
  ls_pc = "listed" =>
    (HeadLineNrs # {} <=>
       /\ ~ls_for_push
       /\ ls_code = "ok"
       /\ \E i \in BundleLineNrs :
            SubSeq(ls_out[i], ShaLen + 2, Len(ls_out[i])) = strip(ls_body))

\* ------------------------------------------------- push followed by list
\* The keys of the bucket of the push model as the strings list_objects_v2
\* returns: <prefix>/refs/heads/<ref>/<name>.
RefStr(r) == Str_refs \o <<"/", "h", "e", "a", "d", "s", "/">> \o r
ShaChar(s) == CASE s = "s1" -> "a" [] s = "s2" -> "b" [] s = "s3" -> "c" [] OTHER -> "0"
KeyName(k) ==
  CASE k.kind = "bundle" -> ShaStr(ShaChar(k.sha)) \o Str_dot_bundle
    [] k.kind = "zip" -> <<"r", "e", "p", "o", ".", "z", "i", "p">>
    [] k.kind = "protected" -> <<"P", "R", "O", "T", "E", "C", "T", "E", "D", "#">>
    [] OTHER -> <<"L", "O", "C", "K", "#", ".", "l", "o", "c", "k">>
KeyStr(k) == ObjKey(RefStr(k.ref), KeyName(k))

\* The listings list_objects_v2 may return for bucket b: its keys in any order
\* of LastModified.
ListingsOf(b) ==
  {q \in [1..Cardinality(b) -> {KeyStr(k) : k \in b}] :
     \A i, j \in DOMAIN q : i # j => q[i] # q[j]}

\* The lines a list command writes for ref on the bucket as it is.
LinesFor(listing, ref) ==
  LET w == cmd_list(listing, IF head = NoRef THEN HeadRead("NoSuchKey", NoBody)
                                ELSE HeadRead("ok", RefStr(head)), FALSE)
  IN {w[i] : i \in {n \in 1..Len(w) :
                        /\ w[n] # <<>> /\ w[n][1] # "@"
                        /\ endswith(w[n], <<" ">> \o RefStr(ref))}}

\* C27: after a push of a local ref at commit S that replied ok, list writes
\* the line "S <ref>" and no other line for that ref; after a delete push that
\* replied ok, list writes no line for the ref.
C27_PushThenList ==
  \A p \in Procs :
    (pc[p] = "done" /\ reply[p] = "ok") =>
      \A q \in ListingsOf(bucket) :
        LinesFor(q, cmd[p].remote) =
          (IF cmd[p].local = "" THEN {}
           ELSE {ShaStr(ShaChar(sha[p])) \o <<" ">> \o RefStr(cmd[p].remote)})

\* ------------------------------------------- process_cmd on raw lines
\* The lines of stdin as the strings readline returns, newline included.
NL == "\n"
Str_fetch == <<"f", "e", "t", "c", "h">>
Str_push == <<"p", "u", "s", "h">>
Str_option == <<"o", "p", "t", "i", "o", "n">>
Str_list == <<"l", "i", "s", "t">>
Str_list_for_push == <<"l", "i", "s", "t", " ", "f", "o", "r", "-", "p", "u", "s", "h">>
Str_capabilities == <<"c", "a", "p", "a", "b", "i", "l", "i", "t", "i", "e", "s">>
Str_verbosity == <<"v", "e", "r", "b", "o", "s", "i", "t", "y">>
Digits == {"0", "1", "2", "3", "4", "5", "6", "7", "8", "9"}
InputLines ==
  {Str_capabilities \o <<NL>>,
   Str_option \o <<" ">> \o Str_verbosity \o <<" ", "2", NL>>,
   Str_option \o <<" ">> \o Str_verbosity \o <<" ", "1", NL>>,
   Str_option \o <<"x", NL>>,
   Str_list \o <<NL>>,
   Str_list_for_push \o <<NL>>,
   Str_list \o <<"x", NL>>,
   Str_push \o <<" ", "a", ":", "b", NL>>,
   Str_push \o <<"x", NL>>,
   Str_fetch \o <<" ", "a", " ", "b", NL>>,
   <<NL>>,
   <<"f", "o", "o", NL>>}

\* The branch of process_cmd's if/elif chain that takes the line.
dispatch(l) ==
  IF startswith(l, Str_fetch) THEN "fetch"
  ELSE IF startswith(l, Str_push) THEN "push"
  ELSE IF startswith(l, Str_option) THEN "option"
  ELSE IF startswith(l, Str_list_for_push) THEN "list for-push"
  ELSE IF startswith(l, Str_list) THEN "list"
  ELSE IF startswith(l, Str_capabilities) THEN "capabilities"
  ELSE IF l = <<NL>> THEN "empty"
  ELSE "invalid"

\* cmd_option(cmd.strip()): option, value = arg.split(" ")[1:] raises ValueError
\* unless there are two; int(value) raises it unless value is a number.
cmd_option(arg) ==
  LET a == Tail(split(arg, " ")) IN
  IF Len(a) # 2 THEN "ValueError"
  ELSE IF a[1] # Str_verbosity THEN "unsupported"
  ELSE IF a[2] = <<>> \/ \E i \in 1..Len(a[2]) : a[2][i] \notin Digits THEN "ValueError"
  ELSE IF \E i \in 1..Len(a[2]) :
            /\ a[2][i] # "0"
            /\ (i < Len(a[2]) \/ a[2][i] # "1")
       THEN "ok" ELSE "unsupported"

\* sys.exit(1) after a message on stderr.
Fatal(a, msg) == [a EXCEPT !.ln_stderr = Append(@, msg), !.ln_exit = "1"]

\* A command in a buffer: the stripped line, and which line of the input it was.
Queued(c, n) == [cmd |-> c, at |-> n]

\* Faulty variant of drain: the buffer is left as the flush found it.
DrainKeeps(buf) == buf

\* self.push_cmds = [] and self.fetch_cmds = [] after the flush
drain(buf) == <<>>

\* main reads a line and process_cmd handles it. The calls of cmd_push and
\* cmd_fetch a flush makes are counted, and the commands they are given are
\* kept in ln_exec; ln_entered is the line that last changed the mode; a list writes at least the empty line,
\* or leaves by a ClientError, which main reports.
ReadLine(l) ==
  /\ ln_exit = "running"
  /\ ln_nread < MaxLines
  /\ LET a == [aux EXCEPT !.ln_nread = @ + 1, !.ln_line = l] IN
     CASE dispatch(l) = "fetch" ->
            aux' = [a EXCEPT !.ln_mode = "FETCH",
                             !.ln_entered = IF ln_mode # "FETCH" THEN a.ln_nread ELSE @,
                             !.ln_fetch_cmds = Append(enter_mode(ln_mode, "FETCH", @),
                                                      Queued(strip(l), a.ln_nread))]
       [] dispatch(l) = "push" ->
            aux' = [a EXCEPT !.ln_mode = "PUSH",
                             !.ln_entered = IF ln_mode # "PUSH" THEN a.ln_nread ELSE @,
                             !.ln_push_cmds = Append(enter_mode(ln_mode, "PUSH", @),
                                                     Queued(strip(l), a.ln_nread))]
       [] dispatch(l) = "option" ->
            IF cmd_option(strip(l)) = "ValueError"
            THEN aux' = Fatal(a, <<"unknown error">>)
            ELSE aux' = [a EXCEPT !.ln_stdout = @ + 1]
       [] dispatch(l) \in {"list", "list for-push"} ->
            \/ aux' = [a EXCEPT !.ln_stdout = @ + 1]
            \/ aux' = Fatal(a, <<"invalid credentials">>)
       [] dispatch(l) = "capabilities" ->
            aux' = [a EXCEPT !.ln_stdout = @ + 4]
       [] dispatch(l) = "empty" ->
            IF ln_mode = "PUSH" /\ ln_push_cmds # <<>>
            THEN aux' = [a EXCEPT !.ln_ran = @ + Len(ln_push_cmds),
                                  !.ln_exec = @ \o ln_push_cmds,
                                  !.ln_stdout = @ + Len(ln_push_cmds) + 1,
                                  !.ln_push_cmds = drain(@)]
            ELSE IF ln_mode = "FETCH" /\ ln_fetch_cmds # <<>>
            THEN aux' = [a EXCEPT !.ln_ran = @ + Len(ln_fetch_cmds),
                                  !.ln_exec = @ \o ln_fetch_cmds,
                                  !.ln_stdout = @ + 1,
                                  !.ln_fetch_cmds = drain(@)]
            ELSE aux' = [a EXCEPT !.ln_stdout = @ + 1]
       [] OTHER ->
            aux' = Fatal(a, <<"invalid command", l>>)
  /\ UNCHANGED coreVars

\* S3Remote.__init__ and main before the first line is read.
InitLines ==
  /\ InitCore
  /\ aux = [ln_line |-> <<>>, ln_nread |-> 0, ln_mode |-> "none", ln_push_cmds |-> <<>>,
            ln_fetch_cmds |-> <<>>, ln_entered |-> 0, ln_exec |-> <<>>, ln_ran |-> 0,
            ln_stdout |-> 0, ln_stderr |-> <<>>,
            ln_exit |-> "running"]

NextLines == \E l \in InputLines : ReadLine(l)

SpecLines == InitLines /\ [][NextLines]_vars

\* A line is one of the recognised commands when it is the empty line or its
\* first word is capabilities, option, list, push or fetch.
Recognised(l) ==
  \/ l = <<NL>>
  \/ split(strip(l), " ")[1] \in {Str_capabilities, Str_option, Str_list, Str_push, Str_fetch}

\* C28: a line that is not a recognised command makes the helper write
\* "fatal: invalid command '<cmd>'" to stderr and exit nonzero, with no queued
\* push or fetch run and nothing written to stdout.
C28_Step ==
  (ln_nread' # ln_nread /\ ~Recognised(ln_line')) =>
    /\ ln_exit' = "1"
    /\ ln_stderr' = Append(ln_stderr, <<"invalid command", ln_line'>>)
    /\ ln_stdout' = ln_stdout
    /\ ln_ran' = ln_ran
    /\ ln_push_cmds' = ln_push_cmds /\ ln_fetch_cmds' = ln_fetch_cmds
C28_UnrecognisedLineIsFatal == [][C28_Step]_vars

\* ------------------------------------------------------- the LFS agent
\* lfs.py main: one JSON event per line of stdin, served one at a time.
\* Object ids are SHA-256 digests, all of one length; the key of an object is
\* <prefix>/lfs/<oid>.
Oids == {<<"a", "1">>, <<"a", "2">>}
LfsSizes == {Bytes(0, 1), MULTIPART_UPLOAD_THRESHOLD, Bytes(2 * 1024, 1)}
NoError == 0

\* {"event": "complete", "oid": oid}, with "path" on a download
CompleteEvent(oid) == [event |-> "complete", oid |-> oid, error |-> NoError]
ProgressEvent(oid) == [event |-> "progress", oid |-> oid, error |-> NoError]

\* Faulty variant of write_error_event: nothing is written.
WriteErrorEventSilent(oid) == <<>>

\* write_error_event: {"event": "complete", "oid": oid, "error": {"code": 2, ...}}
write_error_event(oid) == <<[event |-> "complete", oid |-> oid, error |-> 2]>>

\* Faulty variant of object_exists: the listing is taken as empty.
ObjectNeverExists(store, oid) == FALSE

\* list(self.s3_bucket.objects.filter(Prefix=f"{self.prefix}/lfs/{oid}"))
object_exists(store, oid) == \E k \in store : IsStrPrefix(oid, k)

\* An event has been read and served.
LfsServed(a, ev, oid, fail) ==
  [a EXCEPT !.lfs_n = @ + 1, !.lfs_event = ev, !.lfs_oid = oid, !.lfs_fail = fail]

\* main: event "init": validate_ref_name, git remote get-url, LFSProcess(s3uri).
\* A remote that does not validate or resolve ends the process; a URL without
\* bucket or prefix is answered with error code 32.
LfsInit ==
  /\ lfs_state = "uninit"
  /\ lfs_n < MaxEvents
  /\ \E st \in {"ready", "invalid_uri", "exited"} :
       \E err \in (IF st = "ready" THEN {NoError} ELSE IF st = "invalid_uri" THEN {32}
                   ELSE {NoError, 2}) :
         aux' = [LfsServed(aux, "init", <<>>, "none") EXCEPT
                   !.lfs_state = st,
                   !.lfs_out = Append(@, [event |-> "init", oid |-> <<>>, error |-> err])]
  /\ UNCHANGED coreVars

\* LFSProcess.upload(event): init_s3_bucket, the test for an existing object,
\* then multipart_upload_file or upload_file; any exception is answered with
\* write_error_event. After a URL without bucket the object has no attributes
\* and init_s3_bucket raises AttributeError.
LfsUpload(oid, sz, readable) ==
  /\ lfs_state \in {"ready", "invalid_uri"}
  /\ lfs_n < MaxEvents
  /\ \E fail \in (IF lfs_state = "invalid_uri" THEN {"init_s3"}
                  ELSE {"init_s3", "list"}
                         \cup (IF object_exists(lfs_store, oid) THEN {"none"}
                               ELSE IF readable THEN {"none", "upload"}
                               ELSE {"open"})) :
       LET a == LfsServed(aux, "upload", oid, fail) IN
       IF fail \in {"init_s3", "list"}
       THEN aux' = [a EXCEPT !.lfs_out = @ \o write_error_event(oid)]
       ELSE IF object_exists(lfs_store, oid)
       THEN aux' = [a EXCEPT !.lfs_out = Append(@, CompleteEvent(oid))]
       ELSE IF fail = "none"
       THEN \E progress \in (IF lfs_should_use_multipart_upload(sz, readable)
                             THEN {<<ProgressEvent(oid)>>}
                             ELSE {<<>>, <<ProgressEvent(oid)>>}) :
              aux' = [a EXCEPT !.lfs_calls = Append(@, oid),
                               !.lfs_store = @ \cup {oid},
                               !.lfs_stored = Append(@, oid),
                               !.lfs_out = @ \o progress \o <<CompleteEvent(oid)>>]
       ELSE aux' = [a EXCEPT !.lfs_calls = Append(@, oid),
                             !.lfs_out = @ \o write_error_event(oid)]
  /\ UNCHANGED coreVars

\* LFSProcess.download(event): download_file into .git/lfs/tmp/<oid>; any
\* exception (no such object among them) is answered with write_error_event.
LfsDownload(oid) ==
  /\ lfs_state \in {"ready", "invalid_uri"}
  /\ lfs_n < MaxEvents
  /\ \E fail \in (IF lfs_state = "invalid_uri" THEN {"init_s3"}
                  ELSE IF oid \in lfs_store THEN {"none", "init_s3", "download"}
                  ELSE {"init_s3", "download"}) :
       LET a == LfsServed(aux, "download", oid, fail) IN
       IF fail = "none"
       THEN \E progress \in {<<>>, <<ProgressEvent(oid)>>} :
              aux' = [a EXCEPT !.lfs_local = @ \cup {oid},
                               !.lfs_out = @ \o progress \o <<CompleteEvent(oid)>>]
       ELSE aux' = [a EXCEPT !.lfs_out = @ \o write_error_event(oid)]
  /\ UNCHANGED coreVars

\* End of input: readline returns "", json.loads("") raises and the process ends.
LfsEof ==
  /\ lfs_state \in {"uninit", "ready", "invalid_uri"}
  /\ aux' = [aux EXCEPT !.lfs_state = "exited"]
  /\ UNCHANGED coreVars

NextLfs ==
  \/ LfsInit
  \/ \E oid \in Oids, sz \in LfsSizes, readable \in BOOLEAN : LfsUpload(oid, sz, readable)
  \/ \E oid \in Oids : LfsDownload(oid)
  \/ LfsEof

\* main before the first event: lfs_process = None; the store holds the objects
\* of earlier pushes.
InitLfs ==
  /\ InitCore
  /\ bucket = {}
  /\ aux \in [lfs_state : {"uninit"}, lfs_n : {0}, lfs_event : {"none"}, lfs_oid : {<<>>},
              lfs_fail : {"none"}, lfs_out : {<<>>}, lfs_store : SUBSET Oids,
              lfs_local : {{}}, lfs_stored : {<<>>}, lfs_calls : {<<>>}]

SpecLfs == InitLfs /\ [][NextLfs]_vars

\* How often oid occurs in the log q.
Times(q, oid) == Cardinality({i \in 1..Len(q) : q[i] = oid})

\* The events written by the step, and the complete events among them.
LfsNew == SubSeq(lfs_out', Len(lfs_out) + 1, Len(lfs_out'))
LfsNewComplete == {i \in 1..Len(LfsNew) : LfsNew[i].event = "complete"}

\* C29: every upload or download event served after a successful init gets
\* exactly one complete event, for its oid: without error when nothing failed
\* (and then the object is stored, or downloaded), with error code 2 when
\* anything failed; the agent stays ready for the next event.
C29_Step ==
  (lfs_state = "ready" /\ lfs_n' = lfs_n + 1) =>
    /\ Cardinality(LfsNewComplete) = 1
    /\ \A i \in LfsNewComplete :
         /\ LfsNew[i].oid = lfs_oid'
         /\ LfsNew[i].error = (IF lfs_fail' = "none" THEN NoError ELSE 2)
    /\ \A i \in 1..Len(LfsNew) : LfsNew[i].oid = lfs_oid'
    /\ lfs_fail' = "none" =>
         IF lfs_event' = "upload" THEN object_exists(lfs_store', lfs_oid')
         ELSE lfs_oid' \in lfs_local'
    /\ lfs_state' = "ready"
C29_OneCompletePerEvent == [][C29_Step]_vars

\* An event that failed has been followed by one that succeeded.
C29_Witness ==
  /\ lfs_state = "ready"
  /\ \E i, j \in 1..Len(lfs_out) :
       /\ i < j
       /\ lfs_out[i].event = "complete" /\ lfs_out[i].error = 2
       /\ lfs_out[j].event = "complete" /\ lfs_out[j].error = NoError

\* C30: an upload of an oid whose object exists writes the successful complete
\* event at once and uploads nothing; so an oid uploaded twice is stored once,
\* both uploads reporting success. (A failing listing is an error as in C29.)
C30_Step ==
  (/\ lfs_state = "ready" /\ lfs_n' = lfs_n + 1 /\ lfs_event' = "upload"
   /\ lfs_oid' \in lfs_store /\ lfs_fail' \notin {"init_s3", "list"}) =>
    /\ LfsNew = <<CompleteEvent(lfs_oid')>>
    /\ lfs_calls' = lfs_calls /\ lfs_stored' = lfs_stored /\ lfs_store' = lfs_store
C30_ExistingObjectNotUploaded ==
  /\ [][C30_Step]_vars
  /\ [](\A oid \in Oids : Times(lfs_stored, oid) <= 1)

\* The same oid uploaded twice, both reported complete without error, stored once.
C30_Witness ==
  \E oid \in Oids :
    /\ Times(lfs_stored, oid) = 1 /\ Times(lfs_calls, oid) = 1
    /\ \E i, j \in 1..Len(lfs_out) :
         /\ i < j
         /\ lfs_out[i] = CompleteEvent(oid) /\ lfs_out[j] = CompleteEvent(oid)

\* ------------------------------------------------- the LFS URL of a remote
\* _lfs_only_url(remote) asks git for remote.<remote>.lfsurl, in .lfsconfig
\* and then in the repository's configuration. The function itself is not
\* among the sources; it is modelled from section 4.9 and from the cases of
\* lfs_test.py. A lookup is what subprocess.run returns: the return code and
\* stdout.
lu_file == aux.lu_file
lu_git == aux.lu_git
lu_pc == aux.lu_pc
lu_calls == aux.lu_calls
lu_ret == aux.lu_ret

None == [none |-> TRUE]

\* The outputs of git config: nothing, white space only, a URL, a URL in
\* white space; c tells the two files apart.
LookupOutputs(c) == {<<>>, <<" ", "\n">>, <<"s", "3", c>>, <<" ", "s", "3", c, " ", "\n">>}
Lookups(c) == [rc : {0, 1}, out : LookupOutputs(c)]

\* Faulty variant of lookup_value: the output is returned as git wrote it.
LookupValueUnstripped(res) == IF res.rc = 0 THEN res.out ELSE <<>>

\* The value of one lookup: stdout decoded and stripped when git succeeded,
\* nothing otherwise.
lookup_value(res) == IF res.rc = 0 THEN strip(res.out) ELSE <<>>

InitLfsUrl ==
  /\ InitCore
  /\ bucket = {}
  /\ aux \in [lu_file : Lookups("f"), lu_git : Lookups("g"), lu_pc : {"lfsconfig"},
              lu_calls : {<<>>}, lu_ret : {None}]

\* git config --file .lfsconfig --get remote.<remote>.lfsurl
LookupLfsconfig ==
  /\ lu_pc = "lfsconfig"
  /\ LET url == lookup_value(lu_file)
         a == [aux EXCEPT !.lu_calls = Append(@, ".lfsconfig")] IN
     aux' = IF url # <<>> THEN [a EXCEPT !.lu_ret = url, !.lu_pc = "returned"]
            ELSE [a EXCEPT !.lu_pc = "git config"]
  /\ UNCHANGED coreVars

\* git config --get remote.<remote>.lfsurl, then return None
LookupGitConfig ==
  /\ lu_pc = "git config"
  /\ LET url == lookup_value(lu_git) IN
     aux' = [aux EXCEPT !.lu_calls = Append(@, "git config"),
                        !.lu_ret = IF url # <<>> THEN url ELSE None,
                        !.lu_pc = "returned"]
  /\ UNCHANGED coreVars

NextLfsUrl == LookupLfsconfig \/ LookupGitConfig

SpecLfsUrl == InitLfsUrl /\ [][NextLfsUrl]_vars

\* A lookup failed, or its output is empty once the white space around it is
\* taken off.
LookupEmpty(res) == res.rc # 0 \/ \A i \in 1..Len(res.out) : res.out[i] \in Whitespace

\* The URL inside an output of git config.
UrlOf(res) == SelectSeq(res.out, LAMBDA ch : ch \notin Whitespace)

\* C31: .lfsconfig is read first and the repository's configuration only when
\* that lookup failed or gave nothing; the result is the first value that is
\* not empty, without the white space around it, and None when both lookups
\* failed or gave nothing.
C31_LfsUrlLookupOrder ==
  /\ lu_calls \in {<<>>, <<".lfsconfig">>, <<".lfsconfig", "git config">>}
  /\ Len(lu_calls) = 2 => LookupEmpty(lu_file)
  /\ lu_pc = "returned" =>
       /\ lu_ret = (IF ~LookupEmpty(lu_file) THEN UrlOf(lu_file)
                    ELSE IF ~LookupEmpty(lu_git) THEN UrlOf(lu_git)
                    ELSE None)
       /\ Len(lu_calls) = (IF LookupEmpty(lu_file) THEN 2 ELSE 1)

\* .lfsconfig gave white space only and the URL came from the repository's
\* configuration, where white space surrounded it.
C31_Witness ==
  /\ lu_pc = "returned"
  /\ lu_file = [rc |-> 0, out |-> <<" ", "\n">>]
  /\ Len(lu_git.out) = 6 /\ lu_git.rc = 0
  /\ lu_ret = <<"s", "3", "g">>

\* ------------------------------------------- the archive of an S3+ZIP push
zmsg == aux.zmsg
zsize == aux.zsize
zput == aux.zput

\* What git.get_last_commit_message() can return, and the sizes of the archive
\* on the two sides of the multipart threshold.
CommitMsgs == {"msg1", "msg2"}
ArchiveSizes == {Bytes(0, 1), Bytes(MULTIPART_UPLOAD_THRESHOLD.mib, 1)}
NoPut == [key |-> "none"]

InitZip ==
  /\ InitCore
  /\ aux \in [zmsg : CommitMsgs, zsize : ArchiveSizes, zput : {NoPut}]

SpecZip == InitZip /\ [][NextSeq]_vars

\* C32: a push of a local ref that has replied ok under S3+ZIP has put the
\* bundle and then <prefix>/<remote>/repo.zip, archived from the ref it pushed,
\* with the last commit message as codepipeline-artifact-revision-summary;
\* under S3 no push puts a repo.zip.
C32_OkZipPushUploadsArchive ==
  \A p \in Procs :
    /\ (pc[p] = "done" /\ reply[p] = "ok" /\ cmd[p].local # "" /\ scheme[p] = "S3_ZIP") =>
         /\ {BundleKey(cmd[p].remote, sha[p]), ZipKey(cmd[p].remote)} \subseteq puts[p]
         /\ zput # NoPut
         /\ zput.proc = p
         /\ zput.key = ZipKey(cmd[p].remote)
         /\ zput.ref = cmd[p].local
         /\ zput.metadata = [summary |-> zmsg]
         /\ zput.after_bundle
    /\ scheme[p] = "S3" => \A k \in puts[p] : k.kind # "zip"

\* An S3+ZIP push that replaced a bundle has replied ok, its archive gone
\* through the multipart upload.
C32_Witness ==
  \E p \in Procs :
    /\ pc[p] = "done" /\ reply[p] = "ok" /\ scheme[p] = "S3_ZIP"
    /\ cmd[p].local = "s2" /\ dels[p] # {}
    /\ zput # NoPut /\ zput.proc = p /\ zput.multipart

\* ------------------------------------------- the parts of a multipart upload
\* The parts of a file of size sz: ceil(sz / 100 MiB) of them, numbered from 1,
\* 100 MiB each, the last one what is left.
PartsOf(sz) ==
  [i \in 1..total_parts(sz) |->
     [PartNumber |-> i,
      size |-> IF i < total_parts(sz) THEN DEFAULT_PART_SIZE
               ELSE bytes_sub(sz, Bytes(DEFAULT_PART_SIZE.mib * (i - 1), 0))]]

\* C33: the store receives the parts of the file in order, numbered 1, 2, ...
\* without gap or repeat, each of 100 MiB but the last; complete is called
\* only when all ceil(s / 100 MiB) parts have been acknowledged, with their
\* {PartNumber, ETag} pairs in ascending order.
C33_PartsInOrderThenComplete ==
  /\ Len(urecv) <= total_parts(usize)
  /\ urecv = SubSeq(PartsOf(usize), 1, Len(urecv))
  /\ ucompleted # NoParts =>
       /\ urecv = PartsOf(usize)
       /\ ucompleted = [i \in 1..total_parts(usize) |->
                          [PartNumber |-> i, ETag |-> ETag(i)]]
  /\ ustate = "completed" => ucompleted # NoParts

\* A file of one byte more than 21 parts has been uploaded in 22 parts.
C33_Witness ==
  /\ ustate = "completed" /\ uret = "ok"
  /\ Len(ucompleted) = 22
  /\ urecv[22].size = Bytes(0, 1)

\* ------------------------------------------------ the end of a fetch batch
\* A worker of the thread pool is inside cmd_fetch.
Running(f, w) == f[w] \in {"check", "get", "unbundle"}

\* C34: the empty line that ends a fetch batch is written when every worker of
\* the batch has ended; no worker is inside cmd_fetch when it is written,
\* after it, or at any time outside a flush.
C34_Step ==
  (lpos = "fetching" /\ out' # out) =>
    /\ out' = Append(out, Terminator)
    /\ \A w \in Workers : ~Running(fpc, w) /\ ~Running(fpc', w)
C34_TerminatorAfterWorkers ==
  /\ [][C34_Step]_vars
  /\ [](lpos # "fetching" => \A w \in Workers : ~Running(fpc, w))

\* A batch of two fetches, both downloaded, has been ended by its empty line.
C34_Witness ==
  /\ lpos = "read" /\ mode = "fetch" /\ last = "empty"
  /\ out # <<>> /\ out[Len(out)] = Terminator
  /\ gets["s1"] + gets["s2"] >= 2
  /\ unbundles["s1"] + unbundles["s2"] >= 1

\* ------------------------------------------- what a flush hands to the commands
\* The step reads a line; the step reads an empty line.
LineRead == ln_nread' = ln_nread + 1
EmptyLineRead == LineRead /\ ln_line' = <<NL>>

\* The commands the step has handed to cmd_push or cmd_fetch.
NewlyRun == SubSeq(ln_exec', Len(ln_exec) + 1, Len(ln_exec'))

\* C35: no queued command is run twice: the empty line leaves the buffer of
\* the active mode empty, and an empty line read right after an empty line
\* runs nothing and writes the terminator alone.
C35_Step ==
  /\ EmptyLineRead =>
       /\ ln_mode' = "PUSH" => ln_push_cmds' = <<>>
       /\ ln_mode' = "FETCH" => ln_fetch_cmds' = <<>>
  /\ (EmptyLineRead /\ ln_line = <<NL>>) =>
       /\ NewlyRun = <<>> /\ ln_ran' = ln_ran
       /\ ln_stdout' = ln_stdout + 1
C35_QueuedCommandRunOnce ==
  /\ [][C35_Step]_vars
  /\ [](\A i, j \in 1..Len(ln_exec) : ln_exec[i].at = ln_exec[j].at => i = j)

\* push, empty line, empty line: the push of line 1 has been run once, and
\* three lines are on stdout (its reply and two terminators).
C35_Witness ==
  /\ ln_nread = 3 /\ ln_line = <<NL>> /\ ln_mode = "PUSH"
  /\ Len(ln_exec) = 1 /\ ln_exec[1].at = 1
  /\ ln_stdout = 3

\* C40: the commands a flush runs are of the mode's kind and were queued by
\* the line that last changed the mode or by a later one; what was queued
\* before and not flushed is not run.
C40_Step ==
  \A i \in 1..Len(NewlyRun) :
    /\ NewlyRun[i].at >= ln_entered
    /\ startswith(NewlyRun[i].cmd, IF ln_mode = "PUSH" THEN Str_push ELSE Str_fetch)
C40_FlushRunsOnlyCurrentBatch == [][C40_Step]_vars

\* fetch, push, empty line, empty line: the push of line 2 alone has been run,
\* the fetch of line 1 is still in its buffer.
C40_Witness ==
  /\ ln_nread = 4 /\ ln_line = <<NL>>
  /\ Len(ln_exec) = 1 /\ ln_exec[1].at = 2
  /\ Len(ln_fetch_cmds) = 1 /\ ln_fetch_cmds[1].at = 1

\* ------------------------------------------------ a push that is refused
\* C36: a push of a local ref that has answered with an error reply has left
\* the bucket as it found it: the bundles of the ref, its repo.zip and every
\* other key are those of before, and it has written no <prefix>/HEAD.
C36_ErrorPushLeavesBucket ==
  \A p \in Procs :
    (pc[p] = "done" /\ cmd[p].local # "" /\ reply[p] \in ErrorReplies) =>
      /\ bucket = pre[p]
      /\ HeadKey \notin puts[p]

\* ------------------------------------------------ what a delete push touches
\* C37: a delete push of a ref deletes nothing but the bundle and the repo.zip
\* of that ref: no object of another ref, a ref whose name starts with its
\* name included, and no PROTECTED# marker; it puts nothing, <prefix>/HEAD
\* included.
C37_DeleteTouchesOnlyItsRef ==
  \A p \in Procs :
    IsDelete(p) =>
      /\ \A k \in dels[p] : k.ref = Remote(p) /\ k.kind \in {"bundle", "zip"}
      /\ puts[p] = {}

\* ------------------------------------------ the ref while its bundle is replaced
\* The push of p replaces the bundle the ref had by one of another commit.
Replaces(p) ==
  /\ cmd[p] # NoCmd /\ cmd[p].local # "" /\ rev_parse_ok(cmd[p].local)
  /\ Prior(p) # {}
  /\ \A k \in Prior(p) : k.sha # rev_parse(cmd[p].local)

\* C38: while a push replaces the bundle of a ref by the bundle of another
\* commit, the ref holds a bundle in every state, those a crash of the push
\* would leave included; the old bundle is deleted only when the new one is in
\* the bucket.
C38_Step ==
  \A p \in Procs :
    (Replaces(p) /\ dels'[p] # dels[p]) => BundleKey(Remote(p), sha[p]) \in bucket
C38_RefNeverWithoutBundle ==
  /\ [][C38_Step]_vars
  /\ [](\A p \in Procs : Replaces(p) => Bundles(bucket, Remote(p)) # {})

\* A push has replaced the bundle of s1 by the bundle of s2.
C38_Witness ==
  \E p \in Procs :
    /\ Replaces(p) /\ pc[p] = "done" /\ reply[p] = "ok"
    /\ dels[p] = {BundleKey(Remote(p), "s1")}
    /\ Bundles(bucket, Remote(p)) = {BundleKey(Remote(p), "s2")}

\* ------------------------------------------------ what fetched_refs holds
\* C39: a sha enters fetched_refs only by a worker whose download is on disk
\* and whose unbundle has succeeded; a worker that fails adds nothing, and only
\* a sha in fetched_refs makes cmd_fetch return without a download, so the sha
\* of a failed fetch is fetched again when it is asked for again.
C39_Step ==
  /\ fetched_refs' # fetched_refs =>
       \E w \in Workers :
         /\ fpc[w] = "unbundle" /\ fpc'[w] = "done" /\ w \in ftmp
         /\ fetched_refs' = fetched_refs \cup {fetch_cmds[w].sha}
  /\ \A w \in Workers :
       /\ (fpc[w] # "failed" /\ fpc'[w] = "failed") => fetched_refs' = fetched_refs
       /\ (fpc[w] = "check" /\ fpc'[w] = "done") => fetch_cmds[w].sha \in fetched_refs
C39_FetchedRefsOnlySuccesses ==
  /\ [][C39_Step]_vars
  /\ [](\A s \in fetched_refs : gets[s] >= 1 /\ unbundles[s] >= 1)

\* fetch s1, empty line, fetch s1, empty line: the unbundle of the first batch
\* failed, the second batch downloaded s1 again and succeeded.
C39_Witness ==
  /\ lpos = "read" /\ nrecv = 4 /\ out = <<Terminator, Terminator>>
  /\ gets["s1"] = 2 /\ unbundles["s1"] = 2
  /\ fetched_refs = {"s1"}

====
